---- MODULE Spec2Model ----
(***************************************************************************)
(* State-machine model of the wevi-sync synchronisation engine:            *)
(*   - the push batch of uploadProjectWithConcurrency (worker pool,        *)
(*     per-file and global cancellation, counters, manifest),              *)
(*   - the per-file upload of uploadFileWithProgress (dedup check,         *)
(*     metadata create, simple upload with retry),                         *)
(*   - the resumable chunk loop of uploadResumableFromFile,                *)
(*   - the remote folder cache of getFolderForFile,                        *)
(*   - the two pull paths (handlePullAll and downloadProjectWithProgress), *)
(*   - the lock table of the admin server.                                 *)
(* Each subsystem has its own specification over the shared variables.     *)
(***************************************************************************)
EXTENDS Integers, Sequences, FiniteSets, TLC

(* ------------------------------ bounds -------------------------------- *)
NumFiles == 4
DedupFiles == 2
MaxPushes == 2
MaxFaults == 1
MaxRequests == 3
NumPullFiles == 3
MaxClicks == 1
MaxChunks == 2
NumFolderFiles == 3

(* ------------------------- program constants -------------------------- *)
MAX_PARALLEL_UPLOADS == 3
DRIVE_MAX_RETRIES == 4
DRIVE_RESUMABLE_THRESHOLD == 8 * 1024 * 1024
DRIVE_CHUNK_SIZE == 8 * 1024 * 1024

Min(a, b) == IF a < b THEN a ELSE b
Max(a, b) == IF a > b THEN a ELSE b

(* HTTP outcomes of one request: 0 stands for a network error (no status). *)
Statuses == {0, 200, 403, 503}

shouldRetryAny(status) == TRUE

shouldRetryStatus(status) ==
    status = 408 \/ status = 429 \/ status = 500 \/ status = 502
        \/ status = 503 \/ status = 504

(* Content hashes: NoFile = no remote file of that name, EmptyMd5 = the     *)
(* hash of a file whose metadata exists but whose body was never sent.      *)
NoFile == "nofile"
EmptyMd5 == "md5-empty"

(* api_keys rows: key -> editor_name.  Two keys carry the same editor name; *)
(* PSE-00 is a key the service never issued.                               *)
IssuedKeys == {"PSE-A1", "PSE-A2", "PSE-B1"}
Keys == IssuedKeys \cup {"PSE-00"}
editor_name(k) == IF k = "PSE-B1" THEN "bob" ELSE "alice"
Projects == {"film", "promo"}
NoLock == "unlocked"
NoRequest == [kind |-> "none"]
NoResult == [status |-> 0]

VARIABLES
    (* push batch: uploadProjectWithConcurrency *)
    pc,                  \* position of the batch: folder, workers, manifest, done
    result,              \* value returned by the batch: none, error, cancelled, success
    totalFiles,          \* allFilesToUpload.length
    nextFileIndex,       \* shared pickup index of the workers
    workersReady,        \* workers at the top of their loop (the workers are alike)
    workersExited,       \* workers that have returned
    cancelled,           \* uploadContext.cancelled
    cancelledFiles,      \* uploadContext.cancelledFiles
    activeXhrs,          \* keys of uploadContext.activeXhrs
    xhr,                 \* file -> its upload request: none, open, aborted (abort() called), closed (abort delivered)
    fileStatus,          \* uploadState.fileStatus
    phase,               \* file -> position of its processSingleFile call
    attempt,             \* file -> attempt number of the retry loop
    uploadedFilesCount,
    skippedFilesCount,
    failedFilesCount,
    cancelledFilesCount,
    remoteMd5,           \* file -> md5Checksum of the remote file of that name
    localMd5,            \* file -> hash of the local content
    pushNo,              \* number of the running push
    prevAllUploaded,     \* the push before this one returned with every file uploaded
    editedSince,         \* some local file's content has changed
    faults,              \* disturbances so far: failed responses, missing files, file cancels
    manifest             \* the manifest.json upload of the batch: none, written, failed

VARIABLES
    (* ---- coordination service (admin-server/server.js) ---- *)
    keyPresent,          \* api_keys: the keys that have a row
    keyRevoked,          \* api_keys.revoked = 1
    keyExpired,          \* api_keys.expires_at is in the past
    locks,               \* project_locks: project_name -> locked_by, or NoLock
    lockedAt,            \* project_locks: project_name -> locked_at
    requests,            \* number of requests made to the service so far
    lastReq,             \* the request made last
    lastResult,          \* what the caller got back for it
    answered,            \* per project: authenticated lock requests answered since it was last unlocked
    grants,              \* per project: of these, the ones answered success:true
    winner,              \* per project: the editor of the first grant
    denials,             \* per project: the lockedBy values of the other answers
    rowRemoved           \* the last request deleted a row of project_locks

VARIABLES
    (* ---- pull (part_003 handlePullAll / handleSingleFilePull,            *)
    (*      part_007 downloadProjectWithProgress) ----                      *)
    pullMode,            \* "none", "pullAll" (handlePullAll), "project" (handlePullProjectOld)
    driveFiles,          \* the file list as Drive returned it; sorted in place by handlePullAll
    pullIdx,             \* position of the batch loop in driveFiles
    pullPc,              \* where the batch is
    pullCancelled,       \* pullCancelled / downloadState.cancelled
    localFile,           \* per file: "missing", "same" (size equals Drive's) or "different"
    download,            \* per file: "none", or who started the download in flight
    conflicts,           \* downloadState.conflicts
    conflictIdx,         \* position of the overwrite loop in conflicts
    overwrite,           \* the answer to window.confirm(... Use Drive version ...)
    outcome,             \* per file: what has happened to it in this batch
    batchStarted,        \* per file: the batch has started a download of it
    pulled,              \* handlePullAll: pulled
    skippedPull,         \* handlePullAll: skipped / downloadState.skippedFiles
    clicks               \* row buttons pressed so far

pullVars == <<pullMode, driveFiles, pullIdx, pullPc, pullCancelled, localFile,
              download, conflicts, conflictIdx, overwrite, outcome, batchStarted,
              pulled, skippedPull, clicks>>

VARIABLES
    (* ---- resumable upload of one file (part_007) ---- *)
    rPc,                 \* where uploadFileWithProgress / uploadResumableFromFile is
    totalSize,           \* the size declared for the upload (fileInput.size)
    fileLen,             \* the length of the local file now
    committedBytes,      \* committedBytes
    bytesRead,           \* length of the chunk being sent
    chunkAttempt,        \* attempt of the chunk loop
    sessionAttempt,      \* attempt of the loop around uploadResumableFromFile
    acked,               \* <<start, length>> of each chunk the server acknowledged in this session
    serverBytes,         \* bytes the server holds for this session
    rResult,             \* "none", "success", "skipped" or "failed"
    uploadAttempt,       \* attempt of the loop around simpleUploadAttempt
    sent,                \* how many requests of each kind but PUT were issued for the file
    sends,               \* how many times each byte range <<start, length>> was PUT
    lastOutcome,         \* outcome of the request that has just settled, else "none"
    lastRequest,         \* kind of the request that settled last
    existing,            \* what the search found: "unknown", "none", "same", "different"
    fileIsPathInput      \* fileInput is { filePath, size }, not a string or Uint8Array

chunkVars == <<rPc, totalSize, fileLen, committedBytes, bytesRead, chunkAttempt,
               sessionAttempt, acked, serverBytes, rResult, uploadAttempt, sent,
               sends, lastOutcome, lastRequest, existing, fileIsPathInput>>

lockVars == <<keyPresent, keyRevoked, keyExpired, locks, lockedAt, requests,
              lastReq, lastResult, answered, grants, winner, denials, rowRemoved>>

pushVars == <<pc, result, totalFiles, nextFileIndex, workersReady, workersExited,
              cancelled, cancelledFiles, activeXhrs, xhr, fileStatus, phase,
              attempt, uploadedFilesCount, skippedFilesCount, failedFilesCount,
              cancelledFilesCount, remoteMd5, localMd5, pushNo,
              prevAllUploaded, editedSince, faults, manifest>>

VARIABLES
    (* ---- remote folders of one push batch (getFolderForFile) ---- *)
    folderPath,          \* file -> the folder parts of its relative path
    folderCache,         \* path key -> folder id, NoFolderId while unknown
    folderPromiseCache,  \* path key -> "none", "pending", "resolved", "rejected"
    folderCalls,         \* path key -> calls of GoogleDrive.getOrCreateFolder made for it
    walkPc,              \* file -> "queued", "awaiting", "done", "failed"
    walkDepth            \* file -> folder parts already resolved for it

folderVars == <<folderPath, folderCache, folderPromiseCache, folderCalls, walkPc, walkDepth>>

VARIABLES
    (* ---- the panel of one editor (part_003) ---- *)
    currentProject,      \* the project open in the host application, "none" while undetected
    projectLocks,        \* project -> the holder the panel believes it has (last sync state)
    pendingFilesToPush,  \* "none", or "listed" once the file selection has been built
    isPushing            \* a push started from the panel is running

clientVars == <<currentProject, projectLocks, pendingFilesToPush, isPushing>>

VARIABLES
    (* ---- remote paths of one push batch (buildDriveRelativePath) ---- *)
    allFilesToUpload,    \* the batch: the project file, then projectData.mediaFiles
    driveRelativePath,   \* index -> file.driveRelativePath as a list of path parts
    pathIdx              \* position of the forEach that assigns the paths

pathVars == <<allFilesToUpload, driveRelativePath, pathIdx>>

VARIABLES
    (* ---- patching a pulled project descriptor (handleSingleFilePull) ---- *)
    prprojRefs,          \* the media paths in the descriptor as downloaded
    availableFiles,      \* lower-cased names of the files found under the target folder
    diskRefs,            \* the media paths in the descriptor on disk, "absent" before the write
    diskWrites,          \* calls of fs.writeFileSync(targetPath, ...)
    xmlString,           \* the media paths in the patcher's working copy
    patchIdx,            \* the match the replace callback is called for next
    patchCount,          \* substitutions made
    patchPc              \* "idle", "download", "patch", "done"

patchVars == <<prprojRefs, availableFiles, diskRefs, diskWrites, xmlString, patchIdx,
               patchCount, patchPc>>

VARIABLES
    (* ---- one retry loop and its waits (buildRetryDelayMs) ---- *)
    retryPc,             \* "idle", "request", "sleep", "done"
    retryAttempt,        \* attempt of the loop
    retryAfter,          \* the Retry-After header of the response that failed last
    waitMs               \* the delay passed to sleep

delayVars == <<retryPc, retryAttempt, retryAfter, waitMs>>

vars == <<pushVars, lockVars, pullVars, chunkVars, folderVars, clientVars, pathVars,
          patchVars, delayVars>>

(* The subsystems share no state: a step of one leaves the others alone. *)
notPush == UNCHANGED <<lockVars, pullVars, chunkVars, folderVars, clientVars, pathVars, patchVars,
    delayVars>>
notLock == UNCHANGED <<pushVars, pullVars, chunkVars, folderVars, clientVars, pathVars, patchVars,
    delayVars>>
notPull == UNCHANGED <<pushVars, lockVars, chunkVars, folderVars, clientVars, pathVars, patchVars,
    delayVars>>
notChunk == UNCHANGED <<pushVars, lockVars, pullVars, folderVars, clientVars, pathVars, patchVars,
    delayVars>>
notFolder == UNCHANGED <<pushVars, lockVars, pullVars, chunkVars, clientVars, pathVars, patchVars,
    delayVars>>
notClient == UNCHANGED <<pushVars, pullVars, chunkVars, folderVars, pathVars, patchVars,
                         delayVars>>
notPath == UNCHANGED <<pushVars, lockVars, pullVars, chunkVars, folderVars, clientVars,
                       patchVars, delayVars>>
notPatch == UNCHANGED <<pushVars, lockVars, pullVars, chunkVars, folderVars, clientVars,
                        pathVars, delayVars>>
notDelay == UNCHANGED <<pushVars, lockVars, pullVars, chunkVars, folderVars, clientVars,
                        pathVars, patchVars>>

Files == 1..totalFiles

(* -------------------- uploadProjectWithConcurrency -------------------- *)

(* State set up by one call of uploadProjectWithConcurrency before its      *)
(* first await: every file queued, counters zero, nothing cancelled.        *)
BatchSetup(n) ==
    /\ pc = "folder"
    /\ result = "none"
    /\ totalFiles = n
    /\ nextFileIndex = 0
    /\ workersReady = 0
    /\ workersExited = 0
    /\ cancelled = FALSE
    /\ cancelledFiles = {}
    /\ activeXhrs = {}
    /\ xhr = [f \in 1..n |-> "none"]
    /\ fileStatus = [f \in 1..n |-> "queued"]
    /\ phase = [f \in 1..n |-> "queued"]
    /\ attempt = [f \in 1..n |-> 0]
    /\ uploadedFilesCount = 0
    /\ skippedFilesCount = 0
    /\ failedFilesCount = 0
    /\ cancelledFilesCount = 0
    /\ manifest = "none"

PerProject(v) == [p \in Projects |-> v]

(* A database with the three keys issued and nothing locked. *)
LockFresh ==
    /\ keyPresent = IssuedKeys
    /\ keyRevoked = {}
    /\ keyExpired = {}
    /\ locks = PerProject(NoLock)
    /\ lockedAt = PerProject(0)
    /\ requests = 0
    /\ lastReq = NoRequest
    /\ lastResult = NoResult
    /\ answered = PerProject(0)
    /\ grants = PerProject(0)
    /\ winner = PerProject(NoLock)
    /\ denials = PerProject({})
    /\ rowRemoved = FALSE

(* The panel as loaded: no project detected, no lock known, nothing running. *)
ClientAtRest ==
    /\ currentProject = "none"
    /\ projectLocks = PerProject(NoLock)
    /\ pendingFilesToPush = "none"
    /\ isPushing = FALSE

(* No batch has been prepared. *)
PathAtRest ==
    /\ allFilesToUpload = <<>>
    /\ driveRelativePath = <<>>
    /\ pathIdx = 1

(* No descriptor has been pulled. *)
PatchAtRest ==
    /\ prprojRefs = <<>>
    /\ availableFiles = {}
    /\ diskRefs = "absent"
    /\ diskWrites = 0
    /\ xmlString = <<>>
    /\ patchIdx = 1
    /\ patchCount = 0
    /\ patchPc = "idle"

NoHeader == [form |-> "absent", seconds |-> 0]

(* No retry loop is running. *)
DelayAtRest ==
    /\ retryPc = "idle"
    /\ retryAttempt = 0
    /\ retryAfter = NoHeader
    /\ waitMs = 0

PullFileIds == 1..NumPullFiles

(* The project descriptor: the file whose name ends with .prproj *)
isPrproj(f) == f = 1

(* The explorer shows a project folder's listing; no pull has been started. *)
PullListed(listing, local) ==
    /\ pullMode = "none"
    /\ driveFiles = listing
    /\ pullIdx = 1
    /\ pullPc = "idle"
    /\ pullCancelled = FALSE
    /\ localFile = local
    /\ download = [f \in PullFileIds |-> "none"]
    /\ conflicts = <<>>
    /\ conflictIdx = 1
    /\ overwrite = FALSE
    /\ outcome = [f \in PullFileIds |-> "pending"]
    /\ batchStarted = [f \in PullFileIds |-> FALSE]
    /\ pulled = 0
    /\ skippedPull = 0
    /\ clicks = 0

PullAtRest == PullListed(<<>>, [f \in PullFileIds |-> "missing"])

(* The requests one file's upload can make outside the chunk loop. *)
RequestKinds == {"lookup", "meta", "session", "simple"}
NothingSent == [k \in RequestKinds |-> 0]

(* uploadFileWithProgress has chosen the resumable path for a file of size  *)
(* size, after one search and one metadata request, and has asked for the   *)
(* first session.                                                            *)
ResumableSetup(size) ==
    /\ rPc = "session"
    /\ uploadAttempt = 0
    /\ sent = [NothingSent EXCEPT !["lookup"] = 1, !["meta"] = 1, !["session"] = 1]
    /\ sends = <<>>
    /\ lastOutcome = "answer"
    /\ lastRequest = "meta"
    /\ totalSize = size
    /\ fileLen = size
    /\ committedBytes = 0
    /\ bytesRead = 0
    /\ chunkAttempt = 0
    /\ sessionAttempt = 1
    /\ acked = <<>>
    /\ serverBytes = 0
    /\ rResult = "none"
    /\ existing = "none"
    /\ fileIsPathInput = TRUE

(* uploadFileWithProgress has been called with a fileInput of size size,     *)
(* a file on disk (isPath) or content held in memory, and has sent the       *)
(* search request of findExistingDriveFile.                                  *)
UploadSetup(size, isPath) ==
    /\ fileIsPathInput = isPath
    /\ rPc = "lookup"
    /\ totalSize = size
    /\ fileLen = size
    /\ committedBytes = 0
    /\ bytesRead = 0
    /\ chunkAttempt = 0
    /\ sessionAttempt = 0
    /\ acked = <<>>
    /\ serverBytes = 0
    /\ rResult = "none"
    /\ uploadAttempt = 0
    /\ sent = [NothingSent EXCEPT !["lookup"] = 1]
    /\ sends = <<>>
    /\ lastOutcome = "none"
    /\ lastRequest = "none"
    /\ existing = "unknown"

(* No resumable upload is going on. *)
ChunkAtRest ==
    /\ rPc = "idle"
    /\ uploadAttempt = 0
    /\ sent = NothingSent
    /\ sends = <<>>
    /\ lastOutcome = "none"
    /\ lastRequest = "none"
    /\ totalSize = 0
    /\ fileLen = 0
    /\ committedBytes = 0
    /\ bytesRead = 0
    /\ chunkAttempt = 0
    /\ sessionAttempt = 0
    /\ acked = <<>>
    /\ serverBytes = 0
    /\ rResult = "none"
    /\ existing = "unknown"
    /\ fileIsPathInput = TRUE

(* The folder parts a file's relative path can have, and their path keys:   *)
(* the key of a prefix is its parts joined by "/", here the prefix itself.  *)
FolderPaths == {<<>>, <<"a">>, <<"a", "b">>, <<"c">>}
FolderKeys == FolderPaths \ {<<>>}
NoFolderId == "unknown"

(* folderCache = { '': projectFolderId }, folderPromiseCache = {} and the   *)
(* files of the batch with the paths given by paths.                        *)
FolderSetup(paths) ==
    /\ folderPath = paths
    /\ folderCache = [k \in FolderKeys |-> NoFolderId]
    /\ folderPromiseCache = [k \in FolderKeys |-> "none"]
    /\ folderCalls = [k \in FolderKeys |-> 0]
    /\ walkPc = [f \in DOMAIN paths |-> "queued"]
    /\ walkDepth = [f \in DOMAIN paths |-> 0]

(* No batch is resolving folders. *)
FolderAtRest == FolderSetup(<<>>)

(* No push is going on. *)
PushAtRest ==
    /\ BatchSetup(0)
    /\ remoteMd5 = <<>>
    /\ localMd5 = <<>>
    /\ pushNo = 0
    /\ prevAllUploaded = FALSE
    /\ editedSince = FALSE
    /\ faults = 0

InitPush ==
    /\ ChunkAtRest
    /\ PullAtRest
    /\ LockFresh
    /\ ClientAtRest
    /\ PatchAtRest
    /\ DelayAtRest
    /\ PathAtRest
    /\ FolderAtRest
    /\ BatchSetup(NumFiles)
    /\ remoteMd5 = [f \in 1..NumFiles |-> IF f = 1 THEN "md5-a" ELSE NoFile]
    /\ localMd5 = [f \in 1..NumFiles |-> "md5-a"]
    /\ pushNo = 1
    /\ prevAllUploaded = FALSE
    /\ editedSince = FALSE
    /\ faults = 0

WorkerCountAll(n) == n

(* workerCount = Math.min(MAX_PARALLEL_UPLOADS, totalFiles) *)
WorkerCount(n) == Min(MAX_PARALLEL_UPLOADS, n)

unchangedRemote == UNCHANGED <<remoteMd5, localMd5, pushNo, prevAllUploaded, editedSince>>

(* The environment disturbs a run at most MaxFaults times. *)
Fault == faults < MaxFaults /\ faults' = faults + 1
NoFault == UNCHANGED faults
unchangedCounts == UNCHANGED <<uploadedFilesCount, skippedFilesCount,
                               failedFilesCount, cancelledFilesCount>>

(* The project folder is created and shared; the workers are started. *)
FolderReady ==
    /\ notPush
    /\ UNCHANGED manifest
    /\ pc = "folder"
    /\ pc' = "workers"
    /\ workersReady' = WorkerCount(totalFiles)
    /\ UNCHANGED workersExited
    /\ UNCHANGED <<result, totalFiles, nextFileIndex, cancelled, cancelledFiles,
                   activeXhrs, xhr, fileStatus, phase, attempt, faults>>
    /\ unchangedCounts /\ unchangedRemote

FolderFailsQuietly ==
    /\ notPush
    /\ UNCHANGED manifest
    /\ pc = "folder"
    /\ pc' = "workers"
    /\ result' = "error"
    /\ Fault
    /\ workersReady' = WorkerCount(totalFiles)
    /\ UNCHANGED <<totalFiles, nextFileIndex, workersExited, cancelled,
                   cancelledFiles, activeXhrs, xhr, fileStatus, phase, attempt>>
    /\ unchangedCounts /\ unchangedRemote

(* GoogleDrive.getOrCreateFolder throws: the call rejects before any file work. *)
FolderFails ==
    /\ notPush
    /\ UNCHANGED manifest
    /\ pc = "folder"
    /\ pc' = "done"
    /\ result' = "error"
    /\ Fault
    /\ UNCHANGED <<totalFiles, nextFileIndex, workersReady, workersExited, cancelled,
                   cancelledFiles, activeXhrs, xhr, fileStatus, phase, attempt>>
    /\ unchangedCounts /\ unchangedRemote

(* Every worker is suspended at `await processSingleFile(...)` or has       *)
(* returned.  A worker resumes in the same turn of the event loop in which  *)
(* its file settles, so a request event or a click is handled only when     *)
(* no worker is ready to run.                                               *)
WorkersAwaiting == workersReady = 0

WorkerNeverChecks == FALSE

(* worker(): if (uploadContext.cancelled) return; *)
WorkerCancelCheck == cancelled

SameIndex(i) == i

(* worker(): const currentIndex = nextFileIndex; nextFileIndex++; *)
NextIndex(i) == i + 1

WorkerDies ==
    /\ workersExited' = workersExited + 1
    /\ UNCHANGED workersReady

(* The worker that awaited processSingleFile goes back to the top of its loop. *)
ReleaseWorker ==
    /\ workersReady' = workersReady + 1
    /\ UNCHANGED workersExited

(* One turn of a worker's loop up to the first await of processSingleFile. *)
WorkerStep ==
    /\ notPush
    /\ UNCHANGED manifest
    /\ pc = "workers"
    /\ workersReady > 0
    /\ \/ /\ WorkerCancelCheck
          /\ workersReady' = workersReady - 1
          /\ workersExited' = workersExited + 1
          /\ UNCHANGED <<nextFileIndex, fileStatus, phase, attempt, faults>>
          /\ unchangedCounts
       \/ /\ ~WorkerCancelCheck
          /\ nextFileIndex >= totalFiles
          /\ nextFileIndex' = NextIndex(nextFileIndex)
          /\ workersReady' = workersReady - 1
          /\ workersExited' = workersExited + 1
          /\ UNCHANGED <<fileStatus, phase, attempt, faults>>
          /\ unchangedCounts
       \/ /\ ~WorkerCancelCheck
          /\ nextFileIndex < totalFiles
          /\ nextFileIndex' = NextIndex(nextFileIndex)
          /\ LET f == nextFileIndex + 1 IN
             IF cancelled
             THEN \* processSingleFile: global cancellation check, plain return
                  /\ UNCHANGED <<workersReady, workersExited, fileStatus, phase,
                                 attempt, faults>>
                  /\ unchangedCounts
             ELSE
             \/ \* individually cancelled before it started
                /\ f \in cancelledFiles
                /\ cancelledFilesCount' = cancelledFilesCount + 1
                /\ phase' = [phase EXCEPT ![f] = "settled"]
                /\ UNCHANGED <<workersReady, workersExited, fileStatus, attempt, faults,
                               uploadedFilesCount, skippedFilesCount, failedFilesCount>>
             \/ \* the local file is missing: thrown and caught in the same turn
                /\ f \notin cancelledFiles
                /\ Fault
                /\ fileStatus' = [fileStatus EXCEPT ![f] = "error"]
                /\ failedFilesCount' = failedFilesCount + 1
                /\ phase' = [phase EXCEPT ![f] = "settled"]
                /\ UNCHANGED <<workersReady, workersExited, attempt, uploadedFilesCount,
                               skippedFilesCount, cancelledFilesCount>>
             \/ \* the upload of f begins: await getFolderForFile / findExistingDriveFile
                /\ f \notin cancelledFiles
                /\ fileStatus' = [fileStatus EXCEPT ![f] = "uploading"]
                /\ phase' = [phase EXCEPT ![f] = "lookup"]
                /\ attempt' = [attempt EXCEPT ![f] = 0]
                /\ workersReady' = workersReady - 1
                /\ UNCHANGED workersExited
                /\ NoFault
                /\ unchangedCounts
    /\ UNCHANGED <<pc, result, totalFiles, cancelled, cancelledFiles, activeXhrs, xhr>>
    /\ unchangedRemote

(* processSingleFile after uploadFileWithProgress returned a result. *)
FileSucceeds(f, wasSkipped) ==
    /\ IF wasSkipped
       THEN /\ skippedFilesCount' = skippedFilesCount + 1
            /\ UNCHANGED uploadedFilesCount
       ELSE /\ uploadedFilesCount' = uploadedFilesCount + 1
            /\ UNCHANGED skippedFilesCount
    /\ fileStatus' = [fileStatus EXCEPT ![f] = IF wasSkipped THEN "skipped" ELSE "complete"]
    /\ activeXhrs' = activeXhrs \ {f}
    /\ phase' = [phase EXCEPT ![f] = "settled"]
    /\ ReleaseWorker
    /\ attempt' = [attempt EXCEPT ![f] = 0]
    /\ UNCHANGED <<failedFilesCount, cancelledFilesCount>>

ThrownByCancelNever(f) == FALSE

(* catch: uploadContext.cancelled || uploadContext.cancelledFiles.has(file.uploadKey) *)
ThrownByCancel(f) == cancelled \/ f \in cancelledFiles

(* processSingleFile's catch block. *)
FileThrows(f) ==
    /\ IF ThrownByCancel(f)
       THEN /\ fileStatus' = [fileStatus EXCEPT ![f] = "cancelled"]
            /\ cancelledFilesCount' = cancelledFilesCount + 1
            /\ activeXhrs' = IF cancelled THEN activeXhrs ELSE activeXhrs \ {f}
            /\ UNCHANGED failedFilesCount
       ELSE /\ fileStatus' = [fileStatus EXCEPT ![f] = "error"]
            /\ failedFilesCount' = failedFilesCount + 1
            /\ activeXhrs' = activeXhrs \ {f}
            /\ UNCHANGED cancelledFilesCount
    /\ phase' = [phase EXCEPT ![f] = "settled"]
    /\ ReleaseWorker
    /\ attempt' = [attempt EXCEPT ![f] = 0]
    /\ UNCHANGED <<uploadedFilesCount, skippedFilesCount>>

(* A new XMLHttpRequest is made for f and registered: registerXhr(xhr). *)
OpenXhr(f) ==
    /\ xhr' = [xhr EXCEPT ![f] = "open"]
    /\ activeXhrs' = activeXhrs \cup {f}

pushFrame == UNCHANGED <<pc, result, totalFiles, nextFileIndex, cancelled,
                         cancelledFiles, localMd5, pushNo, prevAllUploaded,
                         editedSince, manifest>>

SkipNever(f) == FALSE

(* uploadFileWithProgress: existingId && md5Checksum && localMd5 && equal *)
SkipUnchanged(f) ==
    /\ remoteMd5[f] # NoFile
    /\ remoteMd5[f] = localMd5[f]

(* findExistingDriveFile answers. *)
LookupDone(f) ==
    /\ notPush
    /\ WorkersAwaiting
    /\ f \in Files
    /\ phase[f] = "lookup"
    /\ \E status \in Statuses :
        \/ /\ status = 200
           /\ NoFault
           /\ SkipUnchanged(f)
           /\ FileSucceeds(f, TRUE)
           /\ UNCHANGED <<xhr, remoteMd5>>
        \/ /\ status = 200
           /\ NoFault
           /\ ~SkipUnchanged(f)
           /\ remoteMd5[f] # NoFile
           /\ OpenXhr(f)
           /\ phase' = [phase EXCEPT ![f] = "xhr"]
           /\ attempt' = [attempt EXCEPT ![f] = 1]
           /\ UNCHANGED <<fileStatus, workersReady, workersExited, remoteMd5>>
           /\ unchangedCounts
        \/ \* computeLocalMd5 could not read the file and returned null
           /\ status = 200
           /\ Fault
           /\ SkipUnchanged(f)
           /\ OpenXhr(f)
           /\ phase' = [phase EXCEPT ![f] = "xhr"]
           /\ attempt' = [attempt EXCEPT ![f] = 1]
           /\ UNCHANGED <<fileStatus, workersReady, workersExited, remoteMd5>>
           /\ unchangedCounts
        \/ /\ status = 200
           /\ NoFault
           /\ remoteMd5[f] = NoFile
           /\ phase' = [phase EXCEPT ![f] = "meta"]
           /\ UNCHANGED <<fileStatus, workersReady, workersExited, remoteMd5, xhr,
                          activeXhrs, attempt>>
           /\ unchangedCounts
        \/ /\ status # 200
           /\ Fault
           /\ FileThrows(f)
           /\ UNCHANGED <<xhr, remoteMd5>>
    /\ pushFrame

(* ensureDriveFileMetadata answers; on success the upload request is sent. *)
MetaDone(f) ==
    /\ notPush
    /\ WorkersAwaiting
    /\ f \in Files
    /\ phase[f] = "meta"
    /\ \E status \in Statuses :
        \/ /\ status = 200
           /\ NoFault
           /\ remoteMd5' = [remoteMd5 EXCEPT ![f] = EmptyMd5]
           /\ OpenXhr(f)
           /\ phase' = [phase EXCEPT ![f] = "xhr"]
           /\ attempt' = [attempt EXCEPT ![f] = 1]
           /\ UNCHANGED <<fileStatus, workersReady, workersExited>>
           /\ unchangedCounts
        \/ /\ status # 200
           /\ Fault
           /\ FileThrows(f)
           /\ UNCHANGED <<xhr, remoteMd5>>
    /\ pushFrame

(* The load, error or timeout event of f's upload request. *)
XhrSettles(f) ==
    /\ notPush
    /\ WorkersAwaiting
    /\ f \in Files
    /\ phase[f] = "xhr"
    /\ xhr[f] = "open"
    /\ \E status \in Statuses :
        \/ /\ status = 200
           /\ NoFault
           /\ remoteMd5' = [remoteMd5 EXCEPT ![f] = localMd5[f]]
           /\ xhr' = [xhr EXCEPT ![f] = "none"]
           /\ FileSucceeds(f, FALSE)
        \/ /\ status # 200
           /\ Fault
           /\ attempt[f] >= DRIVE_MAX_RETRIES \/ ~(status = 0 \/ shouldRetryStatus(status))
           /\ xhr' = [xhr EXCEPT ![f] = "none"]
           /\ FileThrows(f)
           /\ UNCHANGED remoteMd5
        \/ /\ status # 200
           /\ Fault
           /\ attempt[f] < DRIVE_MAX_RETRIES
           /\ status = 0 \/ shouldRetryStatus(status)
           /\ xhr' = [xhr EXCEPT ![f] = "none"]
           /\ phase' = [phase EXCEPT ![f] = "sleep"]
           /\ UNCHANGED <<attempt, remoteMd5, fileStatus, workersReady, workersExited,
                          activeXhrs>>
           /\ unchangedCounts
    /\ pushFrame

abortIsRetriable == TRUE

(* xhr.addEventListener('abort'): createUploadError(..., null, false) *)
abortRetriable == FALSE

(* The abort event of an aborted request: the attempt is rejected, and the  *)
(* catch of the retry loop rethrows what is not retriable.                  *)
XhrAborted(f) ==
    /\ notPush
    /\ WorkersAwaiting
    /\ f \in Files
    /\ phase[f] = "xhr"
    /\ xhr[f] = "aborted"
    /\ xhr' = [xhr EXCEPT ![f] = "closed"]
    /\ IF attempt[f] >= DRIVE_MAX_RETRIES \/ ~abortRetriable
       THEN FileThrows(f)
       ELSE /\ phase' = [phase EXCEPT ![f] = "sleep"]
            /\ UNCHANGED <<attempt, fileStatus, workersReady, workersExited, activeXhrs>>
            /\ unchangedCounts
    /\ UNCHANGED <<remoteMd5, faults>>
    /\ pushFrame

(* The back-off sleep ends: the next attempt sends a new request. *)
RetryAfterSleep(f) ==
    /\ notPush
    /\ WorkersAwaiting
    /\ f \in Files
    /\ phase[f] = "sleep"
    /\ attempt' = [attempt EXCEPT ![f] = attempt[f] + 1]
    /\ OpenXhr(f)
    /\ phase' = [phase EXCEPT ![f] = "xhr"]
    /\ UNCHANGED <<fileStatus, workersReady, workersExited, remoteMd5, faults>>
    /\ unchangedCounts
    /\ pushFrame

AbortNothing == {}

(* cancelBtn.onclick: Object.keys(uploadContext.activeXhrs).forEach(abort) *)
AbortTargets == activeXhrs

(* cancelBtn.onclick, confirmed. *)
CancelAll ==
    /\ notPush
    /\ UNCHANGED manifest
    /\ WorkersAwaiting
    /\ pc # "done"
    /\ ~cancelled
    /\ cancelled' = TRUE
    /\ xhr' = [f \in DOMAIN xhr |->
                 IF f \in AbortTargets /\ xhr[f] = "open" THEN "aborted" ELSE xhr[f]]
    /\ UNCHANGED <<pc, result, totalFiles, nextFileIndex, workersReady, workersExited,
                   cancelledFiles, activeXhrs, fileStatus, phase, attempt, faults>>
    /\ unchangedCounts /\ unchangedRemote

FileAbortAll(f) == activeXhrs

(* fileCancelBtn.onclick: uploadContext.activeXhrs[file.uploadKey].abort();  *)
(* uploadContext.currentXhr is null, the requests being registered on a copy *)
(* of the context.                                                           *)
FileAbortTargets(f) == {f} \cap activeXhrs

(* fileCancelBtn.onclick of file f. *)
CancelFile(f) ==
    /\ notPush
    /\ UNCHANGED manifest
    /\ WorkersAwaiting
    /\ pc # "done"
    /\ f \in Files
    /\ fileStatus[f] \in {"queued", "uploading", "error"}
    /\ Fault
    /\ cancelledFiles' = cancelledFiles \cup {f}
    /\ fileStatus' = [fileStatus EXCEPT ![f] = "cancelled"]
    /\ xhr' = [g \in DOMAIN xhr |->
                 IF g \in FileAbortTargets(f) /\ xhr[g] = "open" THEN "aborted" ELSE xhr[g]]
    /\ UNCHANGED <<pc, result, totalFiles, nextFileIndex, workersReady, workersExited,
                   cancelled, activeXhrs, phase, attempt>>
    /\ unchangedCounts /\ unchangedRemote

AnyWorkerReturned == workersExited >= 1

(* Promise.all(workers): every worker has returned. *)
AllWorkersReturned == workersExited = WorkerCount(totalFiles)

(* await Promise.all(workers) resolves. *)
WorkersJoined ==
    /\ notPush
    /\ UNCHANGED manifest
    /\ pc = "workers"
    /\ AllWorkersReturned
    /\ IF cancelled
       THEN pc' = "done" /\ result' = "cancelled"
       ELSE pc' = "manifest" /\ UNCHANGED result
    /\ UNCHANGED <<totalFiles, nextFileIndex, workersReady, workersExited, cancelled,
                   cancelledFiles, activeXhrs, xhr, fileStatus, phase, attempt, faults>>
    /\ unchangedCounts /\ unchangedRemote

manifestErrorThrown == FALSE

(* try { await uploadFileWithProgress('manifest.json', ...) } catch (error)  *)
(* { console.error(...) }: the catch does not rethrow.                       *)
manifestErrorCaught == TRUE

(* The manifest upload ends, written (ok) or not, and the totals are returned. *)
ManifestDone(ok) ==
    /\ notPush
    /\ pc = "manifest"
    /\ pc' = "done"
    /\ IF ok THEN NoFault ELSE Fault
    /\ manifest' = IF ok THEN "written" ELSE "failed"
    /\ result' = IF ok \/ manifestErrorCaught THEN "success" ELSE "error"
    /\ UNCHANGED prevAllUploaded
    /\ UNCHANGED <<totalFiles, nextFileIndex, workersReady, workersExited, cancelled,
                   cancelledFiles, activeXhrs, xhr, fileStatus, phase, attempt,
                   remoteMd5, localMd5, pushNo, editedSince>>
    /\ unchangedCounts

NextPush ==
    \/ FolderReady
    \/ FolderFails
    \/ WorkerStep
    \/ \E f \in Files : LookupDone(f)
    \/ \E f \in Files : MetaDone(f)
    \/ \E f \in Files : XhrSettles(f)
    \/ \E f \in Files : XhrAborted(f)
    \/ \E f \in Files : RetryAfterSleep(f)
    \/ CancelAll
    \/ \E f \in Files : CancelFile(f)
    \/ WorkersJoined
    \/ \E ok \in BOOLEAN : ManifestDone(ok)

Spec == InitPush /\ [][NextPush]_vars

(* ------------------------- repeated pushes ---------------------------- *)

(* An empty or stale remote folder, and the first push of DedupFiles files. *)
InitDedup ==
    /\ ChunkAtRest
    /\ PullAtRest
    /\ LockFresh
    /\ ClientAtRest
    /\ PatchAtRest
    /\ DelayAtRest
    /\ PathAtRest
    /\ FolderAtRest
    /\ BatchSetup(DedupFiles)
    /\ \E first \in {NoFile, "md5-b"} :
          remoteMd5 = [f \in 1..DedupFiles |-> IF f = 1 THEN first ELSE NoFile]
    /\ localMd5 = [f \in 1..DedupFiles |-> "md5-a"]
    /\ pushNo = 1
    /\ prevAllUploaded = FALSE
    /\ editedSince = FALSE
    /\ faults = 0

(* After a push that returned its result, handlePushSelectedFiles calls     *)
(* uploadProjectWithConcurrency again with the same file set: a new batch   *)
(* state, the remote folder as the last push left it.                       *)
PushAgain ==
    /\ notPush
    /\ pc = "done"
    /\ result = "success"
    /\ pushNo < MaxPushes
    /\ pushNo' = pushNo + 1
    /\ prevAllUploaded' = (result = "success" /\ uploadedFilesCount = totalFiles)
    /\ pc' = "folder"
    /\ result' = "none"
    /\ nextFileIndex' = 0
    /\ workersReady' = 0
    /\ workersExited' = 0
    /\ cancelled' = FALSE
    /\ cancelledFiles' = {}
    /\ activeXhrs' = {}
    /\ xhr' = [f \in Files |-> "none"]
    /\ fileStatus' = [f \in Files |-> "queued"]
    /\ phase' = [f \in Files |-> "queued"]
    /\ attempt' = [f \in Files |-> 0]
    /\ uploadedFilesCount' = 0
    /\ skippedFilesCount' = 0
    /\ failedFilesCount' = 0
    /\ cancelledFilesCount' = 0
    /\ manifest' = "none"
    /\ UNCHANGED <<totalFiles, remoteMd5, localMd5, editedSince, faults>>

(* Between two pushes the user saves new content into local file f. *)
LocalEdit(f) ==
    /\ notPush
    /\ UNCHANGED manifest
    /\ pc = "done"
    /\ f \in Files
    /\ ~editedSince
    /\ editedSince' = TRUE
    /\ localMd5' = [localMd5 EXCEPT ![f] = "md5-b"]
    /\ UNCHANGED <<pc, result, totalFiles, nextFileIndex, workersReady, workersExited,
                   cancelled, cancelledFiles, activeXhrs, xhr, fileStatus, phase,
                   attempt, remoteMd5, pushNo, prevAllUploaded, faults>>
    /\ unchangedCounts

NextDedup ==
    \/ NextPush
    \/ PushAgain
    \/ \E f \in Files : LocalEdit(f)

DedupSpec == InitDedup /\ [][NextDedup]_vars


(* ====================== coordination service =========================== *)
(* better-sqlite3 is synchronous, so each Express handler runs from its     *)
(* first statement to its response without another handler in between:      *)
(* concurrent requests are served one at a time, in any order.              *)

(* What fetch + response.json() give the caller: the JSON body of the       *)
(* response, or { success: false, error: 'Network error' } when the request *)
(* or the response is lost or the body is not JSON.                         *)
NetworkError == [status |-> 0, success |-> "false", error |-> "Network error"]
Nets == {"ok", "requestLost", "responseLost"}
Delivered(net, response) == IF net = "ok" THEN response ELSE NetworkError

NoExistingLock(p) == NoLock

(* SELECT * FROM project_locks WHERE project_name = ? *)
ExistingLock(p) == locks[p]

keyFrame == UNCHANGED <<keyPresent, keyRevoked, keyExpired>>

(* POST /api/validate: valid unless the key is unknown, revoked or expired. *)
validate(k) == k \in keyPresent /\ k \notin keyRevoked /\ k \notin keyExpired
historyFrame == UNCHANGED <<answered, grants, winner, denials>>

Request(kind, k, p, net) ==
    /\ requests < MaxRequests
    /\ requests' = requests + 1
    /\ lastReq' = [kind |-> kind, key |-> k, project |-> p, net |-> net]

(* POST /api/projects/lock, called through SyncEngine.lockProject *)
LockProject(k, p) ==
    \E net \in Nets :
        /\ Request("lock", k, p, net)
        /\ rowRemoved' = FALSE
        /\ keyFrame
        /\ notLock
        /\ IF net = "requestLost"
           THEN /\ lastResult' = NetworkError
                /\ UNCHANGED <<locks, lockedAt>>
                /\ historyFrame
           ELSE IF k \notin keyPresent \/ k \in keyRevoked
           THEN /\ lastResult' = Delivered(net, [status |-> 401, success |-> "absent",
                                                 error |-> "Invalid API key"])
                /\ UNCHANGED <<locks, lockedAt>>
                /\ historyFrame
           ELSE IF ExistingLock(p) # NoLock
           THEN /\ lastResult' = Delivered(net, [status |-> 200, success |-> "false",
                                                 lockedBy |-> ExistingLock(p),
                                                 lockedAt |-> lockedAt[p]])
                /\ UNCHANGED <<locks, lockedAt, grants, winner>>
                /\ answered' = [answered EXCEPT ![p] = @ + 1]
                /\ denials' = [denials EXCEPT ![p] = @ \cup {ExistingLock(p)}]
           ELSE IF locks[p] # NoLock
           THEN \* INSERT violates UNIQUE(project_name): the handler throws
                /\ lastResult' = NetworkError
                /\ UNCHANGED <<locks, lockedAt, grants, winner>>
                /\ answered' = [answered EXCEPT ![p] = @ + 1]
                /\ denials' = [denials EXCEPT ![p] = @ \cup {"undefined"}]
           ELSE /\ locks' = [locks EXCEPT ![p] = editor_name(k)]
                /\ lockedAt' = [lockedAt EXCEPT ![p] = requests + 1]
                /\ lastResult' = Delivered(net, [status |-> 200, success |-> "true"])
                /\ answered' = [answered EXCEPT ![p] = @ + 1]
                /\ grants' = [grants EXCEPT ![p] = @ + 1]
                /\ winner' = [winner EXCEPT ![p] = IF @ = NoLock THEN editor_name(k) ELSE @]
                /\ UNCHANGED denials

(* DELETE FROM project_locks WHERE project_name = ?  A removed row starts   *)
(* a new history of lock requests for the project.                          *)
DeleteLock(p) ==
    /\ locks' = [locks EXCEPT ![p] = NoLock]
    /\ lockedAt' = [lockedAt EXCEPT ![p] = 0]
    /\ IF locks[p] = NoLock
       THEN historyFrame
       ELSE /\ answered' = [answered EXCEPT ![p] = 0]
            /\ grants' = [grants EXCEPT ![p] = 0]
            /\ winner' = [winner EXCEPT ![p] = NoLock]
            /\ denials' = [denials EXCEPT ![p] = {}]

NotOwnerNever(lock, name) == FALSE

(* lock && lock.locked_by !== key.editor_name *)
NotOwner(lock, name) == lock # NoLock /\ lock # name

(* POST /api/projects/unlock, called through SyncEngine.unlockProject *)
UnlockProject(k, p) ==
    \E net \in Nets :
        /\ Request("unlock", k, p, net)
        /\ keyFrame
        /\ notLock
        /\ IF net = "requestLost"
           THEN /\ lastResult' = NetworkError
                /\ UNCHANGED <<locks, lockedAt>>
                /\ historyFrame
           ELSE IF k \notin keyPresent
           THEN /\ lastResult' = Delivered(net, [status |-> 401, success |-> "absent",
                                                 error |-> "Invalid API key"])
                /\ UNCHANGED <<locks, lockedAt>>
                /\ historyFrame
           ELSE IF NotOwner(locks[p], editor_name(k))
           THEN /\ lastResult' = Delivered(net, [status |-> 200, success |-> "false",
                                                 error |-> "You do not own this lock"])
                /\ UNCHANGED <<locks, lockedAt>>
                /\ historyFrame
           ELSE /\ DeleteLock(p)
                /\ lastResult' = Delivered(net, [status |-> 200, success |-> "true"])
        /\ rowRemoved' = (locks[p] # NoLock /\ locks'[p] = NoLock)

AdminCredentials == {"admin:right", "admin:wrong"}

(* A middleware that lets every request through. *)
AdminAnyone(credentials) == TRUE

(* requireAuth *)
AdminAuthenticated(credentials) == credentials = "admin:right"

(* POST /api/projects/force-unlock *)
ForceUnlock(credentials, p) ==
    /\ Request("force-unlock", credentials, p, "ok")
    /\ keyFrame
    /\ notLock
    /\ IF AdminAuthenticated(credentials)
       THEN /\ DeleteLock(p)
            /\ lastResult' = [status |-> 200, success |-> "true"]
       ELSE /\ lastResult' = [status |-> 401, success |-> "absent",
                             error |-> "Invalid credentials"]
            /\ UNCHANGED <<locks, lockedAt>>
            /\ historyFrame
    /\ rowRemoved' = (locks[p] # NoLock /\ locks'[p] = NoLock)

(* A key route that also dropped the lock rows. *)
lockTableCleared ==
    /\ locks' = PerProject(NoLock)
    /\ lockedAt' = PerProject(0)
    /\ historyFrame

lockTableFrame == UNCHANGED <<locks, lockedAt, answered, grants, winner, denials>>

(* POST /api/keys/:key/revoke *)
RevokeKey(k) ==
    /\ Request("revoke", k, "", "ok")
    /\ rowRemoved' = FALSE
    /\ keyRevoked' = IF k \in keyPresent THEN keyRevoked \cup {k} ELSE keyRevoked
    /\ lastResult' = [status |-> 200, success |-> "true"]
    /\ UNCHANGED <<keyPresent, keyExpired>>
    /\ lockTableFrame
    /\ notLock

(* DELETE /api/keys/:key *)
DeleteKey(k) ==
    /\ Request("delete-key", k, "", "ok")
    /\ rowRemoved' = FALSE
    /\ keyPresent' = keyPresent \ {k}
    /\ keyRevoked' = keyRevoked \ {k}
    /\ keyExpired' = keyExpired \ {k}
    /\ lastResult' = [status |-> 200, success |-> "true"]
    /\ lockTableFrame
    /\ notLock

(* Time passes beyond a key's expires_at. *)
KeyExpires(k) ==
    /\ k \in keyPresent \ keyExpired
    /\ requests < MaxRequests
    /\ keyExpired' = keyExpired \cup {k}
    /\ UNCHANGED <<keyPresent, keyRevoked, requests, lastReq, lastResult, rowRemoved>>
    /\ lockTableFrame
    /\ notLock

NextLock ==
    \/ \E k \in Keys, p \in Projects : LockProject(k, p)
    \/ \E k \in Keys, p \in Projects : UnlockProject(k, p)
    \/ \E c \in AdminCredentials, p \in Projects : ForceUnlock(c, p)
    \/ \E k \in Keys : RevokeKey(k)
    \/ \E k \in Keys : DeleteKey(k)
    \/ \E k \in Keys : KeyExpires(k)

InitLock ==
    /\ ChunkAtRest
    /\ LockFresh
    /\ ClientAtRest
    /\ PatchAtRest
    /\ DelayAtRest
    /\ PathAtRest
    /\ FolderAtRest
    /\ PullAtRest
    /\ PushAtRest

LockSpec == InitLock /\ [][NextLock]_vars


(* ========================= the editor's panel =========================== *)
(* One panel, of the editor whose key is PSE-B1, beside the coordination    *)
(* service that other editors talk to as well.                              *)

(* Config.data.editorName *)
editorName == editor_name("PSE-B1")

clientFrame == UNCHANGED lockVars

(* refreshCurrentProject: the host application reports the open project. *)
RefreshCurrentProject(p) ==
    /\ notClient /\ clientFrame
    /\ currentProject = "none"
    /\ currentProject' = p
    /\ UNCHANGED <<projectLocks, pendingFilesToPush, isPushing>>

(* GET /api/sync-state answered, then handleSyncState(state): projectLocks  *)
(* is rebuilt from state.locks.                                             *)
HandleSyncState ==
    /\ notClient /\ clientFrame
    /\ projectLocks # locks
    /\ projectLocks' = locks
    /\ UNCHANGED <<currentProject, pendingFilesToPush, isPushing>>

(* The Push button: handlePushCurrent builds the file list and opens the    *)
(* selection modal.                                                         *)
handlePushCurrent ==
    /\ notClient /\ clientFrame
    /\ ~isPushing
    /\ currentProject # "none"
    /\ pendingFilesToPush' = "listed"
    /\ UNCHANGED <<currentProject, projectLocks, isPushing>>

(* The modal's Push button: handlePushSelectedFiles up to its call of        *)
(* uploadProjectWithConcurrency.                                            *)
handlePushSelectedFiles ==
    /\ notClient /\ clientFrame
    /\ pendingFilesToPush = "listed"
    /\ ~isPushing
    /\ isPushing' = TRUE
    /\ UNCHANGED <<currentProject, projectLocks, pendingFilesToPush>>

(* uploadProjectWithConcurrency has returned or thrown: the finally block.  *)
PushReturns ==
    /\ notClient /\ clientFrame
    /\ isPushing
    /\ isPushing' = FALSE
    /\ pendingFilesToPush' = "none"
    /\ UNCHANGED <<currentProject, projectLocks>>

NextClient ==
    \/ \E k \in IssuedKeys, p \in Projects : LockProject(k, p)
    \/ \E k \in IssuedKeys, p \in Projects : UnlockProject(k, p)
    \/ \E p \in Projects : RefreshCurrentProject(p)
    \/ HandleSyncState
    \/ handlePushCurrent
    \/ handlePushSelectedFiles
    \/ PushReturns

ClientSpec == InitLock /\ [][NextClient]_vars


(* ================================ pull ================================= *)

(* Drive returns the folder's files in an order of its own (no orderBy in   *)
(* listFilesInFolder): the descriptor may come at any position k among the  *)
(* other files, which are alike.                                            *)
Listing(k) == [i \in 1..NumPullFiles |-> IF i < k THEN i + 1 ELSE IF i = k THEN 1 ELSE i]
Listings == {Listing(k) : k \in 1..NumPullFiles}

InitPull ==
    /\ ChunkAtRest
    /\ \E listing \in Listings, local \in [PullFileIds -> {"missing", "same", "different"}] :
          PullListed(listing, local)
    /\ PushAtRest
    /\ LockFresh
    /\ ClientAtRest
    /\ PatchAtRest
    /\ DelayAtRest
    /\ PathAtRest
    /\ FolderAtRest

NotPrproj(f) == ~isPrproj(f)

(* files.sort((a, b) => aIsPrproj - bIsPrproj): a stable sort on the 0/1 key *)
SortPrprojLast(list) == SelectSeq(list, NotPrproj) \o SelectSeq(list, isPrproj)

batchFrame == UNCHANGED <<pullMode, driveFiles, pullIdx, pullPc, pullCancelled,
                          conflicts, conflictIdx, overwrite, pulled, skippedPull>>

(* The user presses Pull All: handlePullAll up to its loop. *)
StartPullAll ==
    /\ notPull
    /\ pullPc = "idle"
    /\ pullMode = "none"
    /\ Len(driveFiles) > 0
    /\ pullMode' = "pullAll"
    /\ pullCancelled' = FALSE
    /\ driveFiles' = SortPrprojLast(driveFiles)
    /\ pullPc' = "top"
    /\ UNCHANGED <<pullIdx, localFile, download, conflicts, conflictIdx, overwrite,
                   outcome, batchStarted, pulled, skippedPull, clicks>>

(* handlePullProjectOld calls downloadProjectWithProgress, which walks the  *)
(* listing in the order Drive returned it.                                   *)
StartPullProject ==
    /\ notPull
    /\ pullPc = "idle"
    /\ pullMode = "none"
    /\ Len(driveFiles) > 0
    /\ \A f \in PullFileIds : download[f] = "none"
    /\ pullMode' = "project"
    /\ pullPc' = "top"
    /\ UNCHANGED <<driveFiles, pullCancelled, pullIdx, localFile, download, conflicts,
                   conflictIdx, overwrite, outcome, batchStarted, pulled, skippedPull,
                   clicks>>

(* A loop that classifies no file as synced. *)
SyncedNever(state) == FALSE

(* exists && localSize === driveSize *)
AlreadySynced(state) == state = "same"

(* One turn of the for-loop of handlePullAll, up to its await. *)
PullAllStep ==
    /\ notPull
    /\ pullMode = "pullAll"
    /\ pullPc = "top"
    /\ IF pullIdx > Len(driveFiles) \/ pullCancelled
       THEN /\ pullPc' = "done"
            /\ pullCancelled' = FALSE
            /\ UNCHANGED <<pullIdx, download, outcome, batchStarted, pulled, skippedPull>>
       ELSE LET f == driveFiles[pullIdx] IN
            IF AlreadySynced(localFile[f])
            THEN /\ skippedPull' = skippedPull + 1
                 /\ outcome' = [outcome EXCEPT ![f] = "skipped"]
                 /\ pullIdx' = pullIdx + 1
                 /\ UNCHANGED <<pullPc, pullCancelled, download, batchStarted, pulled>>
            ELSE IF download[f] # "none"
            THEN \* handleSingleFilePull: downloadingFiles.has(fileId), return
                 /\ pulled' = pulled + 1
                 /\ pullIdx' = pullIdx + 1
                 /\ UNCHANGED <<pullPc, pullCancelled, download, outcome, batchStarted,
                                skippedPull>>
            ELSE /\ download' = [download EXCEPT ![f] = "batch"]
                 /\ batchStarted' = [batchStarted EXCEPT ![f] = TRUE]
                 /\ pullPc' = "await"
                 /\ UNCHANGED <<pullIdx, pullCancelled, outcome, pulled, skippedPull>>
    /\ UNCHANGED <<pullMode, driveFiles, localFile, conflicts, conflictIdx, overwrite,
                   clicks>>

(* One turn of the for-loop of downloadProjectWithProgress, up to its await; *)
(* after the loop handlePullProjectOld asks about the conflicts, if any.     *)
DownloadProjectStep ==
    /\ notPull
    /\ pullMode = "project"
    /\ pullPc = "top"
    /\ IF pullIdx > Len(driveFiles) \/ pullCancelled
       THEN /\ pullPc' = IF Len(conflicts) > 0 THEN "confirm" ELSE "done"
            /\ UNCHANGED <<pullIdx, download, outcome, batchStarted, conflicts,
                           skippedPull>>
       ELSE LET f == driveFiles[pullIdx] IN
            IF localFile[f] = "missing"
            THEN /\ download' = [download EXCEPT ![f] = "batch"]
                 /\ batchStarted' = [batchStarted EXCEPT ![f] = TRUE]
                 /\ pullPc' = "await"
                 /\ UNCHANGED <<pullIdx, outcome, conflicts, skippedPull>>
            ELSE IF AlreadySynced(localFile[f])
            THEN /\ skippedPull' = skippedPull + 1
                 /\ outcome' = [outcome EXCEPT ![f] = "skipped"]
                 /\ pullIdx' = pullIdx + 1
                 /\ UNCHANGED <<pullPc, download, batchStarted, conflicts>>
            ELSE /\ conflicts' = Append(conflicts, f)
                 /\ outcome' = [outcome EXCEPT ![f] = "conflict"]
                 /\ pullIdx' = pullIdx + 1
                 /\ UNCHANGED <<pullPc, download, batchStarted, skippedPull>>
    /\ UNCHANGED <<pullMode, driveFiles, pullCancelled, localFile, conflictIdx,
                   overwrite, pulled, clicks>>

(* window.confirm: OK = Use Drive version, Cancel = Keep local version *)
ConfirmOverwrite(answer) ==
    /\ notPull
    /\ pullPc = "confirm"
    /\ overwrite' = answer
    /\ pullPc' = IF answer THEN "overwrite" ELSE "done"
    /\ UNCHANGED <<pullMode, driveFiles, pullIdx, pullCancelled, localFile, download,
                   conflicts, conflictIdx, outcome, batchStarted, pulled, skippedPull,
                   clicks>>

(* One turn of `for (const conflict of result.conflicts)`, up to its await. *)
OverwriteStep ==
    /\ notPull
    /\ pullPc = "overwrite"
    /\ IF conflictIdx > Len(conflicts)
       THEN /\ pullPc' = "done"
            /\ UNCHANGED <<download, batchStarted>>
       ELSE /\ download' = [download EXCEPT ![conflicts[conflictIdx]] = "batch"]
            /\ batchStarted' = [batchStarted EXCEPT ![conflicts[conflictIdx]] = TRUE]
            /\ pullPc' = "overwriteAwait"
    /\ UNCHANGED <<pullMode, driveFiles, pullIdx, pullCancelled, localFile, conflicts,
                   conflictIdx, overwrite, outcome, pulled, skippedPull, clicks>>

(* The user presses the row button of file f: handleSingleFilePull.  The    *)
(* explorer's rows stay usable while Pull All runs.                          *)
SinglePullClick(f) ==
    /\ notPull
    /\ pullMode # "project"
    /\ clicks < MaxClicks
    /\ clicks' = clicks + 1
    /\ download[f] = "none"
    /\ download' = [download EXCEPT ![f] = "user"]
    /\ UNCHANGED <<localFile, outcome, batchStarted>>
    /\ batchFrame

(* The download of f ends: the file is written, or the download or the      *)
(* write fails; the batch that awaited it goes on.                           *)
DownloadSettles(f, ok) ==
    /\ notPull
    /\ download[f] # "none"
    /\ download' = [download EXCEPT ![f] = "none"]
    /\ LET breaks == pullMode = "project" /\ pullPc = "await" /\ ok /\ pullCancelled
           writes == ok /\ ~breaks
       IN /\ localFile' = IF writes THEN [localFile EXCEPT ![f] = "same"] ELSE localFile
          /\ outcome' = IF breaks THEN outcome
                        ELSE [outcome EXCEPT ![f] = IF ok THEN "written" ELSE "failed"]
          /\ IF download[f] = "user"
             THEN UNCHANGED <<pullPc, pullIdx, conflictIdx, pulled>>
             ELSE /\ pullPc' = IF pullPc = "await" THEN "top" ELSE "overwrite"
                  /\ pullIdx' = IF pullPc = "await" /\ ~breaks THEN pullIdx + 1 ELSE pullIdx
                  /\ conflictIdx' = IF pullPc = "await" THEN conflictIdx ELSE conflictIdx + 1
                  /\ pulled' = IF pullMode = "pullAll" THEN pulled + 1 ELSE pulled
    /\ UNCHANGED <<pullMode, driveFiles, pullCancelled, conflicts, overwrite, batchStarted,
                   skippedPull, clicks>>

(* cancelPullAll / the Cancel Download button *)
CancelPull ==
    /\ notPull
    /\ pullPc \in {"top", "await"}
    /\ ~pullCancelled
    /\ pullCancelled' = TRUE
    /\ UNCHANGED <<pullMode, driveFiles, pullIdx, pullPc, localFile, download, conflicts,
                   conflictIdx, overwrite, outcome, batchStarted, pulled, skippedPull,
                   clicks>>

NextPull ==
    \/ StartPullAll
    \/ StartPullProject
    \/ PullAllStep
    \/ DownloadProjectStep
    \/ \E answer \in BOOLEAN : ConfirmOverwrite(answer)
    \/ OverwriteStep
    \/ \E f \in PullFileIds : SinglePullClick(f)
    \/ \E f \in PullFileIds, ok \in BOOLEAN : DownloadSettles(f, ok)
    \/ CancelPull

PullSpec == InitPull /\ [][NextPull]_vars


(* ========================== resumable upload =========================== *)

(* Sizes at and above the threshold, up to MaxChunks chunks. *)
ResumableSizes ==
    {DRIVE_RESUMABLE_THRESHOLD, MaxChunks * DRIVE_CHUNK_SIZE}
        \cup {k * DRIVE_CHUNK_SIZE + 1 : k \in 1..(MaxChunks - 1)}
        \cup {k * DRIVE_CHUNK_SIZE : k \in 1..(MaxChunks - 1)}

(* Lengths a local file may be cut to while it is being uploaded. *)
ShorterLengths == {0, 1, DRIVE_CHUNK_SIZE, DRIVE_CHUNK_SIZE + 1}

InitResumable ==
    /\ \E size \in ResumableSizes : ResumableSetup(size)
    /\ PushAtRest
    /\ LockFresh
    /\ ClientAtRest
    /\ PatchAtRest
    /\ DelayAtRest
    /\ PathAtRest
    /\ FolderAtRest
    /\ PullAtRest

(* What a request can come to: the server's answer, a retriable status, a   *)
(* non-retriable status, a network error, a timeout, or an answer that is   *)
(* lost after the server has acted.                                          *)
RequestOutcomes == {"answer", "503", "403", "network", "timeout", "lost"}
retriable(o) ==
    \/ o \in {"network", "timeout", "lost"}
    \/ o = "503" /\ shouldRetryStatus(503)
    \/ o = "403" /\ shouldRetryStatus(403)

(* A request of kind k goes out. *)
Issued(k) == sent' = [sent EXCEPT ![k] = @ + 1]

(* A PUT of bytes start .. start+n-1 goes out. *)
PutIssued(start, n) ==
    /\ UNCHANGED sent
    /\ sends' = IF <<start, n>> \in DOMAIN sends
                THEN [sends EXCEPT ![<<start, n>>] = @ + 1]
                ELSE sends @@ (<<start, n>> :> 1)

(* The request of kind k settles with outcome o. *)
Settled(k, o) ==
    /\ lastOutcome' = o
    /\ lastRequest' = k

(* The catch of the loop in uploadFileWithProgress around one session. *)
SessionThrows(isRetriable) ==
    IF sessionAttempt >= DRIVE_MAX_RETRIES \/ ~isRetriable
    THEN /\ rPc' = "done"
         /\ rResult' = "failed"
    ELSE /\ rPc' = "outerSleep"
         /\ UNCHANGED rResult

(* createResumableSession answers; fetch rejects on a network error, which  *)
(* carries no retriable flag.                                                *)
SessionAnswers(o) ==
    /\ notChunk
    /\ UNCHANGED <<existing, fileIsPathInput>>
    /\ rPc = "session"
    /\ o \in {"answer", "503", "403", "network"}
    /\ IF o = "answer"
       THEN /\ rPc' = "read"
            /\ committedBytes' = 0
            /\ acked' = <<>>
            /\ serverBytes' = 0
            /\ UNCHANGED rResult
       ELSE /\ SessionThrows(o # "network" /\ retriable(o))
            /\ UNCHANGED <<committedBytes, acked, serverBytes>>
    /\ Settled("session", o)
    /\ UNCHANGED <<totalSize, fileLen, bytesRead, chunkAttempt, sessionAttempt,
                   uploadAttempt, sent, sends>>

(* The head of `while (committedBytes < totalSize)` down to the first PUT:  *)
(* fs.readSync at position committedBytes returns what the file still has.  *)
ReadChunk ==
    /\ notChunk
    /\ UNCHANGED <<existing, fileIsPathInput>>
    /\ rPc = "read"
    /\ IF committedBytes >= totalSize
       THEN /\ rPc' = "done"
            /\ rResult' = "success"
            /\ UNCHANGED <<bytesRead, chunkAttempt>>
       ELSE LET chunkSize == Min(DRIVE_CHUNK_SIZE, totalSize - committedBytes)
                n == Min(chunkSize, Max(0, fileLen - committedBytes))
            IN IF n <= 0
               THEN /\ rPc' = "done"
                    \* if (bytesRead <= 0) break;  and then  return { id: fileId, skipped: false }
                    /\ rResult' = "success"
                    /\ UNCHANGED <<bytesRead, chunkAttempt>>
               ELSE /\ bytesRead' = n
                    /\ chunkAttempt' = 1
                    /\ rPc' = "put"
                    /\ UNCHANGED rResult
    /\ IF rPc' = "put" THEN PutIssued(committedBytes, bytesRead')
                        ELSE UNCHANGED <<sent, sends>>
    /\ lastOutcome' = "none"
    /\ UNCHANGED <<totalSize, fileLen, committedBytes, sessionAttempt, acked, serverBytes,
                   uploadAttempt, lastRequest>>

(* The server takes bytes start .. start+n-1 if they continue what it holds. *)
ServerTakes(start, n) == IF start = serverBytes THEN serverBytes + n ELSE serverBytes

(* putResumableChunk settles. *)
ChunkAnswers(o) ==
    /\ notChunk
    /\ UNCHANGED <<existing, fileIsPathInput>>
    /\ rPc = "put"
    /\ o \in RequestOutcomes
    /\ serverBytes' = IF o \in {"answer", "lost"}
                      THEN ServerTakes(committedBytes, bytesRead) ELSE serverBytes
    /\ IF o = "answer"
       THEN /\ committedBytes' = committedBytes + bytesRead
            /\ acked' = Append(acked, <<committedBytes, bytesRead>>)
            /\ IF serverBytes' >= totalSize
               THEN \* 200 / 201: chunkResult.done
                    /\ rPc' = "done"
                    /\ rResult' = "success"
               ELSE \* 308
                    /\ rPc' = "read"
                    /\ UNCHANGED rResult
       ELSE /\ UNCHANGED <<committedBytes, acked>>
            /\ IF chunkAttempt >= DRIVE_MAX_RETRIES \/ ~retriable(o)
               THEN SessionThrows(retriable(o))
               ELSE /\ rPc' = "sleep"
                    /\ UNCHANGED rResult
    /\ Settled("put", o)
    /\ UNCHANGED <<totalSize, fileLen, bytesRead, chunkAttempt, sessionAttempt,
                   uploadAttempt, sent, sends>>

(* await sleep(waitMs) is over: the next attempt of the same chunk. *)
ChunkRetry ==
    /\ notChunk
    /\ UNCHANGED <<existing, fileIsPathInput>>
    /\ rPc = "sleep"
    /\ chunkAttempt' = chunkAttempt + 1
    /\ rPc' = "put"
    /\ PutIssued(committedBytes, bytesRead)
    /\ lastOutcome' = "none"
    /\ UNCHANGED <<totalSize, fileLen, committedBytes, bytesRead, sessionAttempt, acked,
                   serverBytes, rResult, uploadAttempt, lastRequest>>

(* await sleep(waitMs) is over: uploadResumableFromFile is called again. *)
SessionRetry ==
    /\ notChunk
    /\ UNCHANGED <<existing, fileIsPathInput>>
    /\ rPc = "outerSleep"
    /\ sessionAttempt' = sessionAttempt + 1
    /\ rPc' = "session"
    /\ Issued("session")
    /\ lastOutcome' = "none"
    /\ UNCHANGED <<totalSize, fileLen, committedBytes, bytesRead, chunkAttempt, acked,
                   serverBytes, rResult, uploadAttempt, sends, lastRequest>>

(* Another program cuts the local file short while it is being uploaded. *)
FileTruncated(len) ==
    /\ notChunk
    /\ UNCHANGED <<existing, fileIsPathInput>>
    /\ rPc # "done"
    /\ len < fileLen
    /\ fileLen' = len
    /\ UNCHANGED <<rPc, totalSize, committedBytes, bytesRead, chunkAttempt,
                   sessionAttempt, acked, serverBytes, rResult, uploadAttempt, sent,
                   sends, lastOutcome, lastRequest>>

NextResumable ==
    \/ \E o \in RequestOutcomes : SessionAnswers(o)
    \/ ReadChunk
    \/ \E o \in RequestOutcomes : ChunkAnswers(o)
    \/ ChunkRetry
    \/ SessionRetry
    \/ \E len \in ShorterLengths : FileTruncated(len)

ResumableSpec == InitResumable /\ [][NextResumable]_vars

(* ====================== one file's upload, whole ======================= *)

(* Sizes on both sides of the resumable threshold: one byte, the largest     *)
(* simple upload, the smallest resumable one (one chunk) and one byte more   *)
(* (two chunks).                                                             *)
UploadSizes ==
    {1, DRIVE_RESUMABLE_THRESHOLD - 1, DRIVE_RESUMABLE_THRESHOLD, DRIVE_RESUMABLE_THRESHOLD + 1}

InitUpload ==
    /\ \E size \in UploadSizes, isPath \in BOOLEAN : UploadSetup(size, isPath)
    /\ PushAtRest
    /\ LockFresh
    /\ ClientAtRest
    /\ PatchAtRest
    /\ DelayAtRest
    /\ PathAtRest
    /\ FolderAtRest
    /\ PullAtRest

(* What a fetch can come to: fetch has no timeout and its rejection on a    *)
(* network error comes without answer.                                      *)
FetchOutcomes == {"answer", "503", "403", "network"}

resumableFrame ==
    UNCHANGED <<totalSize, fileLen, committedBytes, bytesRead, chunkAttempt, acked,
                serverBytes, sends>>

(* An error thrown outside the two retry loops leaves uploadFileWithProgress. *)
UploadThrows ==
    /\ rPc' = "done"
    /\ rResult' = "failed"
    /\ UNCHANGED <<sessionAttempt, uploadAttempt, sent>>

(* fileIsPathInput && inputSize >= DRIVE_RESUMABLE_THRESHOLD *)
shouldUseResumable == fileIsPathInput /\ totalSize >= DRIVE_RESUMABLE_THRESHOLD

(* shouldUseResumable, and the first request of the loop chosen; sentNow is *)
(* what has been sent before it.                                            *)
BeginUpload(sentNow) ==
    /\ UNCHANGED rResult
    /\ IF shouldUseResumable
       THEN /\ rPc' = "session"
            /\ sessionAttempt' = 1
            /\ sent' = [sentNow EXCEPT !["session"] = @ + 1]
            /\ UNCHANGED uploadAttempt
       ELSE /\ rPc' = "simple"
            /\ uploadAttempt' = 1
            /\ sent' = [sentNow EXCEPT !["simple"] = @ + 1]
            /\ UNCHANGED sessionAttempt

(* A test that never finds the file unchanged. *)
MD5NeverMatches(found, sameMd5) == FALSE

(* existingId && existingFile.md5Checksum && localMd5 &&                    *)
(* existingFile.md5Checksum === localMd5                                     *)
MD5Match(found, sameMd5) == found /\ sameMd5

(* findExistingDriveFile settles, computeLocalMd5 is compared, and           *)
(* ensureDriveFileMetadata either returns the existing id or sends its POST. *)
LookupAnswers(o, found, sameMd5) ==
    /\ notChunk
    /\ UNCHANGED fileIsPathInput
    /\ existing' = IF o # "answer" THEN existing
                   ELSE IF ~found THEN "none"
                   ELSE IF sameMd5 THEN "same" ELSE "different"
    /\ rPc = "lookup"
    /\ o \in FetchOutcomes
    /\ Settled("lookup", o)
    /\ resumableFrame
    /\ IF o # "answer"
       THEN UploadThrows
       ELSE IF MD5Match(found, sameMd5)
            THEN /\ rPc' = "done"
                 /\ rResult' = "skipped"
                 /\ UNCHANGED <<sessionAttempt, uploadAttempt, sent>>
            ELSE IF found
                 THEN BeginUpload(sent)
                 ELSE /\ rPc' = "meta"
                      /\ Issued("meta")
                      /\ UNCHANGED <<rResult, sessionAttempt, uploadAttempt>>

(* The POST of ensureDriveFileMetadata settles. *)
MetaAnswers(o) ==
    /\ notChunk
    /\ UNCHANGED <<existing, fileIsPathInput>>
    /\ rPc = "meta"
    /\ o \in FetchOutcomes
    /\ Settled("meta", o)
    /\ resumableFrame
    /\ IF o # "answer" THEN UploadThrows ELSE BeginUpload(sent)

(* simpleUploadAttempt settles, and the catch of the loop around it. *)
SimpleAnswers(o) ==
    /\ notChunk
    /\ UNCHANGED <<existing, fileIsPathInput>>
    /\ rPc = "simple"
    /\ o \in RequestOutcomes
    /\ Settled("simple", o)
    /\ resumableFrame
    /\ UNCHANGED <<sessionAttempt, uploadAttempt, sent>>
    /\ IF o = "answer"
       THEN /\ rPc' = "done"
            /\ rResult' = "success"
       ELSE IF uploadAttempt >= DRIVE_MAX_RETRIES \/ ~retriable(o)
            THEN /\ rPc' = "done"
                 /\ rResult' = "failed"
            ELSE /\ rPc' = "simpleSleep"
                 /\ UNCHANGED rResult

(* await sleep(waitMs) is over: the next simpleUploadAttempt. *)
SimpleRetry ==
    /\ notChunk
    /\ UNCHANGED <<existing, fileIsPathInput>>
    /\ rPc = "simpleSleep"
    /\ rPc' = "simple"
    /\ uploadAttempt' = uploadAttempt + 1
    /\ Issued("simple")
    /\ lastOutcome' = "none"
    /\ resumableFrame
    /\ UNCHANGED <<rResult, sessionAttempt, lastRequest>>

NextUpload ==
    \/ \E o \in FetchOutcomes, found, sameMd5 \in BOOLEAN : LookupAnswers(o, found, sameMd5)
    \/ \E o \in FetchOutcomes : MetaAnswers(o)
    \/ \E o \in RequestOutcomes : SimpleAnswers(o)
    \/ SimpleRetry
    \/ \E o \in RequestOutcomes : SessionAnswers(o)
    \/ ReadChunk
    \/ \E o \in RequestOutcomes : ChunkAnswers(o)
    \/ ChunkRetry
    \/ SessionRetry

UploadSpec == InitUpload /\ [][NextUpload]_vars

(* ===================== folders of a push batch ======================== *)

FolderFiles == DOMAIN folderPath

InitFolder ==
    /\ \E paths \in [1..NumFolderFiles -> FolderPaths] : FolderSetup(paths)
    /\ PushAtRest
    /\ LockFresh
    /\ ClientAtRest
    /\ PatchAtRest
    /\ DelayAtRest
    /\ PathAtRest
    /\ PullAtRest
    /\ ChunkAtRest

PromiseNeverCached(key) == FALSE

(* if (!folderPromiseCache[currentPathKey]) *)
PromiseCached(key) == folderPromiseCache[key] # "none"

(* The key of the first d parts of path. *)
PathKey(path, d) == SubSeq(path, 1, d)

(* The loop of getFolderForFile runs on without awaiting while folderCache  *)
(* has the key of the next part: the depth at which it stops.               *)
RECURSIVE WalkStop(_, _, _)
WalkStop(path, d, cache) ==
    IF d >= Len(path) THEN d
    ELSE IF cache[PathKey(path, d + 1)] # NoFolderId THEN WalkStop(path, d + 1, cache)
    ELSE d

(* getFolderForFile of f from depth d up to its next await or its return.   *)
WalkFrom(f, d, cache) ==
    LET path == folderPath[f]
        e == WalkStop(path, d, cache)
        key == PathKey(path, e + 1)
    IN /\ walkDepth' = [walkDepth EXCEPT ![f] = e]
       /\ IF e >= Len(path)
          THEN /\ walkPc' = [walkPc EXCEPT ![f] = "done"]
               /\ UNCHANGED <<folderPromiseCache, folderCalls>>
          ELSE /\ walkPc' = [walkPc EXCEPT ![f] = "awaiting"]
               /\ IF PromiseCached(key)
                  THEN UNCHANGED <<folderPromiseCache, folderCalls>>
                  ELSE /\ folderPromiseCache' = [folderPromiseCache EXCEPT ![key] = "pending"]
                       /\ folderCalls' = [folderCalls EXCEPT ![key] = @ + 1]

(* Files whose processSingleFile is suspended in getFolderForFile. *)
Walking == {f \in FolderFiles : walkPc[f] = "awaiting"}

(* A worker takes f from the queue and processSingleFile calls getFolderForFile. *)
StartWalk(f) ==
    /\ notFolder
    /\ f \in FolderFiles
    /\ walkPc[f] = "queued"
    /\ \A g \in FolderFiles : g < f => walkPc[g] # "queued"
    /\ Cardinality(Walking) < WorkerCount(Cardinality(FolderFiles))
    /\ WalkFrom(f, 0, folderCache)
    /\ UNCHANGED <<folderPath, folderCache>>

(* GoogleDrive.getOrCreateFolder for key returns an id or throws. *)
FolderCallSettles(key, ok) ==
    /\ notFolder
    /\ folderPromiseCache[key] = "pending"
    /\ folderPromiseCache' = [folderPromiseCache EXCEPT ![key] = IF ok THEN "resolved" ELSE "rejected"]
    /\ UNCHANGED <<folderPath, folderCache, folderCalls, walkPc, walkDepth>>

(* folderCache[currentPathKey] = await folderPromiseCache[currentPathKey]   *)
(* gets its value, or the rejection is thrown out of getFolderForFile.      *)
ResumeWalk(f) ==
    /\ notFolder
    /\ f \in FolderFiles
    /\ walkPc[f] = "awaiting"
    /\ LET key == PathKey(folderPath[f], walkDepth[f] + 1) IN
       \/ /\ folderPromiseCache[key] = "resolved"
          /\ folderCache' = [folderCache EXCEPT ![key] = "id"]
          /\ WalkFrom(f, walkDepth[f] + 1, folderCache')
       \/ /\ folderPromiseCache[key] = "rejected"
          /\ walkPc' = [walkPc EXCEPT ![f] = "failed"]
          /\ UNCHANGED <<folderCache, folderPromiseCache, folderCalls, walkDepth>>
    /\ UNCHANGED folderPath

NextFolder ==
    \/ \E f \in FolderFiles : StartWalk(f)
    \/ \E key \in FolderKeys, ok \in BOOLEAN : FolderCallSettles(key, ok)
    \/ \E f \in FolderFiles : ResumeWalk(f)

FolderSpec == InitFolder /\ [][NextFolder]_vars


(* ================= remote relative paths of a batch ===================== *)
(* A local file is an absolute Windows path, kept as its drive letter, the  *)
(* folders below the drive and the file name.                               *)

NumMediaFiles == 2
MaxDepth == 2

Drives == {"c", "d"}
PathParts == {"proj", "Proj", "external_d", "clips"}
Dirs == UNION {[1..n -> PathParts] : n \in 0..MaxDepth}

(* projectData.path and the entries of projectData.mediaFiles *)
projectFile == [drive |-> "c", dir |-> <<"proj">>, name |-> "film.prproj", type |-> "project"]
MediaFiles == [drive : Drives, dir : Dirs, name : {"a.mov"}, type : {"file"}]

(* String.prototype.toLowerCase, on a path part *)
toLowerCase(part) == IF part = "Proj" THEN "proj" ELSE part

(* The parts of file.path *)
PathOf(file) == file.dir \o <<file.name>>

(* pathModule.dirname(projectData.path) *)
projectRoot == [drive |-> projectFile.drive, dir |-> projectFile.dir]

(* normalizedAbsolute.startsWith(normalizedRoot + '/'), both lower-cased *)
InsideProjectRoot(file) ==
    /\ file.drive = projectRoot.drive
    /\ Len(file.dir) >= Len(projectRoot.dir)
    /\ \A i \in 1..Len(projectRoot.dir) :
          toLowerCase(file.dir[i]) = toLowerCase(projectRoot.dir[i])

(* pathModule.relative(projectData.baseFolder, absolute) *)
relative(file) == SubSeq(PathOf(file), Len(projectRoot.dir) + 1, Len(PathOf(file)))

(* `external_${driveMatch[1].toLowerCase()}` *)
drivePrefix(drive) == IF drive = "c" THEN "external_c" ELSE "external_d"

buildDriveRelativePath(file) ==
    IF file.type = "project" THEN <<file.name>>
    ELSE IF InsideProjectRoot(file) THEN relative(file)
    ELSE <<drivePrefix(file.drive)>> \o PathOf(file)

(* The callers list each path string once (seenPaths). *)
InitPath ==
    /\ ChunkAtRest
    /\ PushAtRest
    /\ LockFresh
    /\ ClientAtRest
    /\ PatchAtRest
    /\ DelayAtRest
    /\ FolderAtRest
    /\ PullAtRest
    /\ \E media \in [1..NumMediaFiles -> MediaFiles] :
          /\ \A i, j \in 1..NumMediaFiles : i # j => media[i] # media[j]
          /\ allFilesToUpload = <<projectFile>> \o media
    /\ driveRelativePath = <<>>
    /\ pathIdx = 1

(* One turn of allFilesToUpload.forEach *)
AssignDrivePath ==
    /\ notPath
    /\ pathIdx <= Len(allFilesToUpload)
    /\ driveRelativePath' =
          Append(driveRelativePath, buildDriveRelativePath(allFilesToUpload[pathIdx]))
    /\ pathIdx' = pathIdx + 1
    /\ UNCHANGED allFilesToUpload

NextPath == AssignDrivePath

PathSpec == InitPath /\ [][NextPath]_vars


(* ================== patching a pulled descriptor ======================== *)
(* The descriptor is gzip-compressed XML; what the patcher reads and        *)
(* rewrites in it are the absolute media paths, kept here as the list of    *)
(* the matches of pathPattern, each a folder and a base name.               *)

MaxRefs == 2

RefDirs == {"orig", "target", "Target"}
RefNames == {"a.mov", "A.MOV", "b.mov"}
MediaRefs == [dir : RefDirs, base : RefNames]
Descriptors == UNION {[1..n -> MediaRefs] : n \in 0..MaxRefs}

(* targetFolder and the names of the files that may lie in it *)
targetFolder == "target"
TargetNames == {"a.mov", "b.mov"}

(* toLowerCase on a folder or a file name *)
lowerName(name) ==
    IF name = "A.MOV" THEN "a.mov" ELSE IF name = "Target" THEN "target" ELSE name

(* fullPath.toLowerCase() *)
lowerPath(ref) == [dir |-> lowerName(ref.dir), base |-> lowerName(ref.base)]

(* availableFiles[lowerBasename]: the file of that name under targetFolder *)
newPath(ref) == [dir |-> targetFolder, base |-> lowerName(ref.base)]

(* availableFiles[lowerBasename] && newPath.toLowerCase() !== fullPath.toLowerCase() *)
Substitutes(ref) ==
    /\ lowerName(ref.base) \in availableFiles
    /\ lowerPath(newPath(ref)) # lowerPath(ref)

(* A patcher that saves whatever the count. *)
SaveAlways(count) == TRUE

(* if (patchCount > 0) *)
ShouldSave(count) == count > 0

InitPatch ==
    /\ ChunkAtRest
    /\ PushAtRest
    /\ LockFresh
    /\ ClientAtRest
    /\ FolderAtRest
    /\ PullAtRest
    /\ PathAtRest
    /\ DelayAtRest
    /\ prprojRefs \in Descriptors
    /\ availableFiles \in SUBSET TargetNames
    /\ diskRefs = "absent"
    /\ diskWrites = 0
    /\ xmlString = <<>>
    /\ patchIdx = 1
    /\ patchCount = 0
    /\ patchPc = "download"

patchFrame == UNCHANGED <<prprojRefs, availableFiles>>

(* The download has ended: fs.writeFileSync(targetPath, nodeBuffer), then    *)
(* the descriptor is read back and gunzipped; a descriptor that cannot be   *)
(* read or decompressed throws into the catch, which leaves the file.       *)
WriteDownloaded(readable) ==
    /\ notPatch /\ patchFrame
    /\ patchPc = "download"
    /\ diskRefs' = prprojRefs
    /\ diskWrites' = diskWrites + 1
    /\ xmlString' = IF readable THEN prprojRefs ELSE xmlString
    /\ patchPc' = IF readable THEN "patch" ELSE "done"
    /\ UNCHANGED <<patchIdx, patchCount>>

(* The replace callback, called for the next match of pathPattern. *)
ReplaceMatch ==
    /\ notPatch /\ patchFrame
    /\ patchPc = "patch"
    /\ patchIdx <= Len(xmlString)
    /\ patchIdx' = patchIdx + 1
    /\ IF Substitutes(xmlString[patchIdx])
       THEN /\ patchCount' = patchCount + 1
            /\ xmlString' = [xmlString EXCEPT ![patchIdx] = newPath(@)]
       ELSE UNCHANGED <<patchCount, xmlString>>
    /\ UNCHANGED <<diskRefs, diskWrites, patchPc>>

(* After the last match: recompress and save. *)
SavePatched ==
    /\ notPatch /\ patchFrame
    /\ patchPc = "patch"
    /\ patchIdx > Len(xmlString)
    /\ patchPc' = "done"
    /\ IF ShouldSave(patchCount)
       THEN /\ diskRefs' = xmlString
            /\ diskWrites' = diskWrites + 1
       ELSE UNCHANGED <<diskRefs, diskWrites>>
    /\ UNCHANGED <<xmlString, patchIdx, patchCount>>

NextPatch ==
    \/ \E readable \in BOOLEAN : WriteDownloaded(readable)
    \/ ReplaceMatch
    \/ SavePatched

PatchSpec == InitPatch /\ [][NextPatch]_vars


(* ======================= the wait before a retry ======================== *)
(* One of the retry loops of part_007: a request is tried up to             *)
(* DRIVE_MAX_RETRIES times and a retriable failure is followed by a sleep   *)
(* of buildRetryDelayMs(attempt, err.retryAfterMs).                         *)

(* Math.floor(Math.random() * 500) is one of 0 .. JitterSpan - 1 *)
JitterSpan == 500
MaxBackoffMs == 30000

(* A Retry-After header is absent, a number of seconds, or an HTTP date     *)
(* that lies that many seconds ahead.                                       *)
RetryAfterHeaders ==
    {NoHeader} \cup [form : {"seconds", "date"}, seconds : {0, 1, 120}]

(* What getRetryAfterMs returns for "no delay" *)
null == 0 - 1

(* parseInt(retryAfter, 10): the digits in front, NaN for a date, which     *)
(* starts with the name of a day.                                           *)
parsesAsInt(header) == header.form = "seconds"

getRetryAfterMs(header) ==
    IF header.form = "absent" THEN null
    ELSE IF parsesAsInt(header) /\ header.seconds >= 0 THEN header.seconds * 1000
    ELSE null

(* 2 to the power n *)
Pow2(n) == IF n = 0 THEN 1 ELSE IF n = 1 THEN 2 ELSE IF n = 2 THEN 4 ELSE 8

(* Math.min(30000, 1000 * Math.pow(2, attempt - 1)) *)
backoffBase(n) ==
    IF 1000 * Pow2(n - 1) < MaxBackoffMs THEN 1000 * Pow2(n - 1) ELSE MaxBackoffMs

buildRetryDelayMs(n, explicitRetryAfterMs, jitter) ==
    IF explicitRetryAfterMs # null /\ explicitRetryAfterMs > 0
    THEN explicitRetryAfterMs
    ELSE backoffBase(n) + jitter

InitDelay ==
    /\ ChunkAtRest
    /\ PushAtRest
    /\ LockFresh
    /\ ClientAtRest
    /\ FolderAtRest
    /\ PullAtRest
    /\ PathAtRest
    /\ PatchAtRest
    /\ retryPc = "request"
    /\ retryAttempt = 1
    /\ retryAfter = NoHeader
    /\ waitMs = 0

(* The request fails with a retriable error whose response carried header:  *)
(* the catch of the loop.                                                   *)
RequestFails(header) ==
    /\ notDelay
    /\ retryPc = "request"
    /\ retryAfter' = header
    /\ IF retryAttempt >= DRIVE_MAX_RETRIES
       THEN /\ retryPc' = "done"
            /\ UNCHANGED <<retryAttempt, waitMs>>
       ELSE /\ retryPc' = "sleep"
            /\ \E jitter \in 0..(JitterSpan - 1) :
                  waitMs' = buildRetryDelayMs(retryAttempt, getRetryAfterMs(header), jitter)
            /\ UNCHANGED retryAttempt

(* await sleep(waitMs) is over: the catch block is left, with its err and   *)
(* its waitMs, for the next attempt.                                        *)
SleepOver ==
    /\ notDelay
    /\ retryPc = "sleep"
    /\ retryPc' = "request"
    /\ retryAttempt' = retryAttempt + 1
    /\ retryAfter' = NoHeader
    /\ waitMs' = 0

(* The request succeeds. *)
RequestSucceeds ==
    /\ notDelay
    /\ retryPc = "request"
    /\ retryPc' = "done"
    /\ UNCHANGED <<retryAttempt, retryAfter, waitMs>>

NextDelay ==
    \/ \E header \in RetryAfterHeaders : RequestFails(header)
    \/ SleepOver
    \/ RequestSucceeds

DelaySpec == InitDelay /\ [][NextDelay]_vars

(* ============================ claims ================================== *)

CountSum == uploadedFilesCount + skippedFilesCount + failedFilesCount + cancelledFilesCount

(* C1: after a push batch has ended, normally or by global cancellation,    *)
(* uploaded + skipped + failed + cancelled equals the number of files       *)
(* selected for the batch.                                                  *)
C1_CountConservation ==
    (pc = "done" /\ result \in {"success", "cancelled"}) => CountSum = totalFiles

(* C1, the case the code does satisfy: a batch that was not globally        *)
(* cancelled accounts for every selected file.                              *)
C1_CompletedBatchConserves ==
    (pc = "done" /\ result = "success") => CountSum = totalFiles

Uploading == {f \in Files : fileStatus[f] = "uploading"}
InFlight == {f \in Files : phase[f] \in {"lookup", "meta", "xhr", "sleep"}}

(* C3: at every instant of a push at most MAX_PARALLEL_UPLOADS (3) files     *)
(* are in the uploading state, and at most 3 are being processed.            *)
C3_PoolBound ==
    /\ Cardinality(Uploading) <= MAX_PARALLEL_UPLOADS
    /\ Cardinality(InFlight) <= MAX_PARALLEL_UPLOADS

C3_Witness ==
    /\ Cardinality(Uploading) = MAX_PARALLEL_UPLOADS
    /\ \E f \in Files : phase[f] = "queued"

(* C6: if a push of N files returns with every file uploaded and no local    *)
(* content changes, a second push of the same file set that runs without a   *)
(* failed request, an unreadable local file or a cancellation reports        *)
(* uploaded = 0 and skipped = N.                                             *)
C6_DedupIdempotence ==
    (/\ pushNo >= 2
     /\ pc = "done"
     /\ result = "success"
     /\ prevAllUploaded
     /\ ~editedSince
     /\ faults = 0)
    => /\ uploadedFilesCount = 0
       /\ skippedFilesCount = totalFiles

C6_Witness ==
    /\ pushNo = 2
    /\ pc = "done"
    /\ result = "success"
    /\ prevAllUploaded
    /\ ~editedSince
    /\ faults = 0
    /\ uploadedFilesCount = 0
    /\ skippedFilesCount = totalFiles

(* C7: once global cancellation has been requested no worker picks up       *)
(* another task: the pickup index stays and every queued file stays queued. *)
C7_NoPickupAfterCancel ==
    [][cancelled =>
        /\ nextFileIndex' = nextFileIndex
        /\ \A f \in Files : phase[f] = "queued" => phase'[f] = "queued"]_vars

C7_Witness ==
    /\ cancelled
    /\ workersExited > 0
    /\ nextFileIndex < totalFiles
    /\ \E f \in Files : phase[f] = "queued"

(* C8: the step that requests global cancellation aborts every upload        *)
(* request that is registered and in flight at that moment.                  *)
C8_CancelAbortsRegistered ==
    [][(~cancelled /\ cancelled') =>
        \A f \in activeXhrs : xhr[f] = "open" => xhr'[f] = "aborted"]_vars

C8_Witness ==
    /\ cancelled
    /\ Cardinality({f \in Files : xhr[f] = "aborted" /\ f \notin cancelledFiles}) >= 2


(* C2: for any order in which lock requests for one project are served,     *)
(* starting from unlocked, exactly one of the requests that carry an        *)
(* accepted key is answered success:true, and every other one is answered   *)
(* success:false with lockedBy equal to the editor of the one that          *)
(* succeeded.                                                               *)
C2_LockExclusivity ==
    \A p \in Projects :
        answered[p] >= 1 =>
            /\ grants[p] = 1
            /\ winner[p] = locks[p]
            /\ denials[p] \subseteq {winner[p]}
            /\ answered[p] >= 2 => denials[p] = {winner[p]}

C2_Witness ==
    \E p \in Projects :
        /\ answered[p] >= 3
        /\ grants[p] = 1
        /\ denials[p] = {winner[p]}

UnlockStep == requests' = requests + 1 /\ lastReq'.kind = "unlock"
UnlockKey == lastReq'.key
UnlockHolder == locks[lastReq'.project]
UnlockSucceeded == lastResult'.success = "true"
CallerIsHolder ==
    /\ UnlockKey \in keyPresent
    /\ UnlockHolder # NoLock
    /\ UnlockHolder = editor_name(UnlockKey)

(* C9 as stated: an unlock request returns success only if the caller's      *)
(* identity matches the holder of an existing lock on the project; any       *)
(* other unlock request is rejected and leaves the lock table unchanged.     *)
C9_UnlockOnlyByHolder ==
    [][UnlockStep =>
        /\ UnlockSucceeded => CallerIsHolder
        /\ ~CallerIsHolder => UNCHANGED <<locks, lockedAt>>]_vars

(* C9 as the code has it: an unlock request returns success only if the      *)
(* project has no lock or the caller's editor name is the holder's; a        *)
(* request with an unknown key, or for a lock held by another editor, is     *)
(* rejected; and every unlock request other than the holder's leaves the     *)
(* lock table unchanged.                                                     *)
C9_UnlockByHolderOrUnlocked ==
    [][UnlockStep =>
        /\ UnlockSucceeded =>
              /\ UnlockKey \in keyPresent
              /\ UnlockHolder = NoLock \/ UnlockHolder = editor_name(UnlockKey)
        /\ (UnlockKey \notin keyPresent
              \/ (UnlockHolder # NoLock /\ UnlockHolder # editor_name(UnlockKey)))
              => ~UnlockSucceeded
        /\ ~CallerIsHolder => UNCHANGED <<locks, lockedAt>>]_vars

C9_Witness ==
    /\ lastReq.kind = "unlock"
    /\ lastResult.status = 200
    /\ lastResult.success = "false"
    /\ \E p \in Projects : locks[p] # NoLock /\ lastReq.project = p


(* C4: in a pull batch that contains the project descriptor (.prproj), the   *)
(* descriptor's download starts only after every other file of the batch     *)
(* has completed (been written, skipped or failed).                          *)
C4_DescriptorLast ==
    \A d \in PullFileIds :
        (isPrproj(d) /\ batchStarted[d]) =>
            \A f \in PullFileIds \ {d} : outcome[f] \in {"written", "skipped", "failed"}

(* C4, the case the code does satisfy: in handlePullAll, with no row button  *)
(* pressed meanwhile, the descriptor is downloaded after every other file.   *)
C4_PullAllAloneDescriptorLast ==
    (pullMode = "pullAll" /\ clicks = 0) => C4_DescriptorLast

(* C10: a pull never overwrites a local file whose size differs from the     *)
(* remote size unless the user has confirmed the drive-wins decision.        *)
C10_NoUnconfirmedOverwrite ==
    [][\A f \in PullFileIds :
          (download[f] = "batch" /\ localFile[f] = "different" /\ localFile'[f] # "different")
              => overwrite]_vars

(* C10, the case the code does satisfy: downloadProjectWithProgress and      *)
(* handlePullProjectOld overwrite a conflict file only after confirmation.   *)
C10_ProjectPullAsksFirst ==
    [][pullMode = "project" =>
          \A f \in PullFileIds :
              (localFile[f] = "different" /\ localFile'[f] # "different") => overwrite]_vars


RangeStart(i) == acked[i][1]
RangeLength(i) == acked[i][2]
RangesContiguousFromZero ==
    \A i \in 1..Len(acked) :
        RangeStart(i) = IF i = 1 THEN 0 ELSE RangeStart(i - 1) + RangeLength(i - 1)
RangesEnd == IF Len(acked) = 0 THEN 0 ELSE RangeStart(Len(acked)) + RangeLength(Len(acked))

(* C5: for a resumable upload of size S that reports success, the byte       *)
(* ranges of the chunks the server acknowledged start at byte 0, are         *)
(* contiguous with no overlap and no gap, and their lengths sum to S.        *)
C5_ChunkCoverage ==
    rResult = "success" => (RangesContiguousFromZero /\ RangesEnd = totalSize)

(* C5, the case the code does satisfy: the ranges acknowledged are always    *)
(* contiguous from byte 0, and they add up to S when the upload reports      *)
(* success and the local file has kept its length.                           *)
C5_CoverageOfUnchangedFile ==
    /\ RangesContiguousFromZero
    /\ (rResult = "success" /\ fileLen = totalSize) => RangesEnd = totalSize

(* C11: within one file's upload, any given chunk (byte range) is sent at    *)
(* most DRIVE_MAX_RETRIES = 4 times, and a chunk that has failed with a      *)
(* retriable error on its 4th attempt makes the file failed.                 *)
C11_ChunkSentAtMostFourTimes ==
    /\ \A r \in DOMAIN sends : sends[r] <= DRIVE_MAX_RETRIES
    /\ (lastRequest = "put" /\ retriable(lastOutcome) /\ chunkAttempt >= DRIVE_MAX_RETRIES)
           => rResult = "failed"

(* C11, the case the code does satisfy: one session sends a byte range at    *)
(* most 4 times, so over the sessions of one upload a range is sent at most  *)
(* 4 * 4 times.                                                              *)
C11_ChunkSentAtMostFourTimesPerSession ==
    /\ chunkAttempt <= DRIVE_MAX_RETRIES
    /\ \A r \in DOMAIN sends : sends[r] <= DRIVE_MAX_RETRIES * DRIVE_MAX_RETRIES

(* A request of the upload is awaiting its response. *)
RequestInFlight == rPc \in {"lookup", "meta", "simple", "session", "put"}

(* C12: a response with a non-retriable status (403 stands for every status  *)
(* outside 408, 429, 500, 502, 503, 504) to a request of one file's upload   *)
(* fails the file in the same step, whatever the attempt, and once the       *)
(* upload has ended no request follows.                                      *)
C12_NonRetriableFailsAtOnce ==
    [][/\ (RequestInFlight /\ lastOutcome' = "403")
            => (rPc' = "done" /\ rResult' = "failed" /\ sent' = sent /\ sends' = sends)
       /\ rPc = "done" => (rPc' = "done" /\ sent' = sent /\ sends' = sends)]_vars

(* A simple upload whose first and only attempt was answered 403 has failed: *)
(* one search, one metadata request and one upload request were sent.        *)
C12_Witness ==
    /\ rPc = "done"
    /\ rResult = "failed"
    /\ lastRequest = "simple"
    /\ lastOutcome = "403"
    /\ uploadAttempt = 1
    /\ sent["simple"] = 1

(* A transient failure: a network error (the response possibly lost after   *)
(* the server acted), a timeout, or a status of the retriable set.           *)
Transient(o) == o \in {"network", "lost", "timeout", "503"}

(* Attempts made of the request that settled last. *)
AttemptsOfLast == IF lastRequest = "put" THEN chunkAttempt ELSE sent[lastRequest]

FailedOnTransient == rPc = "done" /\ rResult = "failed" /\ Transient(lastOutcome)

(* C13: a transient failure on any request made during one file's upload is  *)
(* retried, and the file is failed only after the attempt ceiling of 4       *)
(* has been reached for that request.                                        *)
C13_TransientRetriedToCeiling ==
    FailedOnTransient => AttemptsOfLast >= DRIVE_MAX_RETRIES

(* C13, the case the code does satisfy: transient failures of the simple     *)
(* upload request and of a chunk PUT are retried up to the ceiling.          *)
C13_UploadRequestsRetriedToCeiling ==
    (FailedOnTransient /\ lastRequest \in {"simple", "put"})
        => AttemptsOfLast >= DRIVE_MAX_RETRIES

(* C14: once a file's in-flight upload request has been aborted by a         *)
(* cancellation, no further request is made for that file, and when the      *)
(* abort has been delivered the file is settled in the cancelled state.      *)
C14_NoRequestAfterAbort ==
    [][\A f \in Files :
          /\ xhr[f] = "aborted" => xhr'[f] \in {"aborted", "closed"}
          /\ xhr[f] = "closed" =>
                 /\ phase[f] = "settled"
                 /\ fileStatus[f] = "cancelled"
                 /\ xhr'[f] = "closed"
                 /\ phase'[f] = "settled"
                 /\ fileStatus'[f] = "cancelled"]_vars

(* The batch has ended after the request of an individually cancelled file   *)
(* was aborted, while another file was uploaded.                             *)
C14_Witness ==
    /\ pc = "done"
    /\ ~cancelled
    /\ \E f \in cancelledFiles : xhr[f] = "closed"
    /\ uploadedFilesCount > 0

(* C15: for every remote folder path prefix needed in a push batch, the      *)
(* folder get-or-create call is issued at most once, however many workers    *)
(* need files under that prefix at the same time.                            *)
C15_FolderCallAtMostOnce ==
    \A key \in FolderKeys : folderCalls[key] <= 1

(* Two workers await the folder of the same prefix at once, and one call     *)
(* has been made for it.                                                     *)
C15_Witness ==
    \E f, g \in FolderFiles :
        /\ f # g
        /\ walkPc[f] = "awaiting" /\ walkPc[g] = "awaiting"
        /\ PathKey(folderPath[f], walkDepth[f] + 1) = PathKey(folderPath[g], walkDepth[g] + 1)
        /\ folderCalls[PathKey(folderPath[f], walkDepth[f] + 1)] = 1

(* C16: a file whose upload ended because of user cancellation, global or    *)
(* individual, is counted as cancelled and not as failed: this is so when    *)
(* the abort of its request is delivered, and when a worker reaches a        *)
(* queued file that was cancelled individually.                              *)
C16_CancelledNotFailed ==
    [][\A f \in Files :
          ((xhr[f] = "aborted" /\ xhr'[f] = "closed")
              \/ (phase[f] = "queued" /\ phase'[f] = "settled" /\ f \in cancelledFiles))
          => /\ cancelledFilesCount' = cancelledFilesCount + 1
             /\ failedFilesCount' = failedFilesCount
             /\ fileStatus'[f] = "cancelled"]_vars

(* A globally cancelled batch has ended with the requests of two files       *)
(* aborted, both counted as cancelled and none as failed.                    *)
C16_Witness ==
    /\ pc = "done"
    /\ result = "cancelled"
    /\ Cardinality({f \in Files : xhr[f] = "closed"}) >= 2
    /\ cancelledFilesCount >= 2
    /\ failedFilesCount = 0

(* Files whose processSingleFile has counted them. *)
SettledFiles == {f \in Files : phase[f] = "settled"}

(* C17: no file contributes more than one increment in total to the          *)
(* uploaded, skipped, failed and cancelled counters, also when it is both    *)
(* cancelled individually and caught by the global cancellation: the sum of  *)
(* the counters is the number of settled files, and a settled file is never  *)
(* settled again.                                                            *)
C17_OneIncrementPerFile ==
    [][/\ CountSum = Cardinality(SettledFiles)
       /\ CountSum' = Cardinality(SettledFiles')
       /\ \A f \in Files : phase[f] = "settled" => phase'[f] = "settled"]_vars

(* A file cancelled individually while its request was in flight was also    *)
(* caught by the global cancellation, and the batch has ended with exactly   *)
(* one increment for each settled file.                                      *)
C17_Witness ==
    /\ pc = "done"
    /\ cancelled
    /\ \E f \in cancelledFiles : xhr[f] = "closed" /\ phase[f] = "settled"
    /\ cancelledFilesCount >= 2
    /\ CountSum = Cardinality(SettledFiles)

(* The step is a click on the cancel button of file f. *)
CancelFileStep(f) == f \notin cancelledFiles /\ f \in cancelledFiles'

(* C18: cancelling one file individually changes only that file's outcome.   *)
(* The click leaves every other file, the queue, the workers and the         *)
(* counters as they are; while there is no global cancellation, no file      *)
(* other than the cancelled ones has its request aborted or is marked        *)
(* cancelled; and the worker whose file was aborted goes back to the queue.  *)
C18_CancelFileFrame ==
    [][/\ \A f \in Files :
            CancelFileStep(f) =>
                /\ \A g \in Files \ {f} :
                       /\ fileStatus'[g] = fileStatus[g]
                       /\ phase'[g] = phase[g]
                       /\ xhr'[g] = xhr[g]
                       /\ attempt'[g] = attempt[g]
                /\ UNCHANGED <<pc, result, cancelled, nextFileIndex, workersReady,
                               workersExited, activeXhrs, uploadedFilesCount,
                               skippedFilesCount, failedFilesCount, cancelledFilesCount>>
       /\ ~cancelled' =>
            \A g \in Files \ cancelledFiles' :
                xhr'[g] \notin {"aborted", "closed"} /\ fileStatus'[g] # "cancelled"
       /\ \A f \in Files :
            (~cancelled /\ xhr[f] = "aborted" /\ xhr'[f] = "closed")
                => (workersReady' = workersReady + 1 /\ workersExited' = workersExited)]_vars

(* A batch in which one file was cancelled individually while its request    *)
(* was in flight has ended normally: that file is the only one cancelled,    *)
(* every other file is complete or skipped, and all are accounted for.       *)
C18_Witness ==
    /\ pc = "done"
    /\ result = "success"
    /\ totalFiles >= 3
    /\ \E f \in cancelledFiles :
          /\ xhr[f] = "closed"
          /\ \A g \in Files \ {f} : fileStatus[g] \in {"complete", "skipped"}
    /\ cancelledFilesCount = 1
    /\ CountSum = totalFiles

(* The step counts a file as failed. *)
FailureStep == failedFilesCount' # failedFilesCount

ManifestBegun == pc = "manifest" \/ (pc = "done" /\ result = "success")
FilesAllTerminal ==
    \A f \in Files :
        /\ phase[f] = "settled"
        /\ fileStatus[f] \in {"complete", "skipped", "error", "cancelled"}
        /\ xhr[f] \in {"none", "closed"}

(* C21: in a push the manifest upload is started only after every file of    *)
(* the batch has reached a terminal state (uploaded, skipped, failed or      *)
(* cancelled), and once the manifest write has begun no file upload request  *)
(* is issued and no file is taken from the queue or processed.               *)
C21_ManifestAfterAllFiles ==
    [][/\ ManifestBegun => FilesAllTerminal
       /\ ManifestBegun' => FilesAllTerminal'
       /\ ManifestBegun => UNCHANGED <<xhr, phase, activeXhrs, nextFileIndex>>]_vars

(* The manifest is being written after a batch of several files in which     *)
(* one file failed or was cancelled and another was uploaded.                *)
C21_Witness ==
    /\ pc = "manifest"
    /\ totalFiles > MAX_PARALLEL_UPLOADS
    /\ uploadedFilesCount >= 1
    /\ failedFilesCount + cancelledFilesCount >= 1
    /\ FilesAllTerminal

(* The step in which the manifest upload fails. *)
ManifestFails == pc = "manifest" /\ manifest' = "failed"

(* C22: if the manifest upload fails, the push still returns its result      *)
(* with the same uploaded, skipped, failed and cancelled counts, and no file *)
(* already uploaded is removed, uploaded again or classified anew.           *)
C22_ManifestFailureKeepsResult ==
    [][/\ ManifestFails =>
            /\ pc' = "done"
            /\ result' = "success"
            /\ UNCHANGED <<uploadedFilesCount, skippedFilesCount, failedFilesCount,
                           cancelledFilesCount, totalFiles>>
            /\ UNCHANGED <<remoteMd5, fileStatus, phase, xhr, activeXhrs, nextFileIndex>>
       /\ (pc = "done" /\ manifest = "failed") =>
            UNCHANGED <<result, uploadedFilesCount, skippedFilesCount, failedFilesCount,
                        cancelledFilesCount, remoteMd5, fileStatus, phase, xhr>>]_vars

(* A push that uploaded files has returned success although its manifest     *)
(* could not be written.                                                     *)
C22_Witness ==
    /\ pc = "done"
    /\ result = "success"
    /\ manifest = "failed"
    /\ uploadedFilesCount >= 2
    /\ CountSum = totalFiles


(* A batch download of f that was in flight settles with the bytes received. *)
TransferCompletes(f) ==
    /\ download[f] = "batch"
    /\ download'[f] = "none"
    /\ outcome'[f] # "failed"

(* C23: if cancel is requested while a file is being downloaded in a pull,   *)
(* that file's transfer runs to completion and the file is written locally.  *)
C23_CurrentFileWrittenAfterCancel ==
    [][\A f \in PullFileIds :
          (pullCancelled /\ TransferCompletes(f)) => localFile'[f] = "same"]_vars

(* C23, the case the code does satisfy: in handlePullAll the file whose       *)
(* download is in flight when cancel is requested is written when the        *)
(* download completes, and no further download is started.                   *)
C23_PullAllFinishesCurrentFile ==
    [][pullMode = "pullAll" =>
          \A f \in PullFileIds :
              /\ (pullCancelled /\ TransferCompletes(f)) => localFile'[f] = "same"
              /\ (pullCancelled /\ download[f] = "none") => download'[f] # "batch"]_vars


PullBatchRunning == pullPc \in {"top", "await", "confirm", "overwrite", "overwriteAwait"}
DownloadsInFlight == {f \in PullFileIds : download[f] # "none"}
BatchStartsDownload(f) == download[f] = "none" /\ download'[f] = "batch"

(* C24: during a pull batch at most one file download is in flight at any    *)
(* instant: the next file's download is not started until the previous file  *)
(* has been written or has failed.                                           *)
C24_OneDownloadInFlight ==
    [][/\ PullBatchRunning' => Cardinality(DownloadsInFlight') <= 1
       /\ \A f \in PullFileIds : BatchStartsDownload(f) => DownloadsInFlight = {}]_vars

(* C24, the case the code does satisfy: the batch loops themselves await     *)
(* each download before starting the next, so the batch never has two        *)
(* downloads of its own in flight, and with no row button pressed during the *)
(* batch no two downloads overlap at all.                                    *)
C24_BatchLoopSequential ==
    [][/\ Cardinality({f \in PullFileIds : download'[f] = "batch"}) <= 1
       /\ \A f \in PullFileIds :
             BatchStartsDownload(f) => \A g \in PullFileIds : download[g] # "batch"
       /\ (clicks' = 0 /\ PullBatchRunning') => Cardinality(DownloadsInFlight') <= 1]_vars


(* C25: a pull batch never downloads or overwrites a file classified as      *)
(* synced, that is, one whose local copy exists with a size equal to the     *)
(* remote size.                                                              *)
C25_SyncedFilesUntouched ==
    [][\A f \in PullFileIds :
          /\ BatchStartsDownload(f) => localFile[f] # "same"
          /\ download'[f] = "batch" => localFile'[f] # "same"]_vars

(* A batch met a synced file, skipped it, and went on to download another.   *)
C25_Witness ==
    \E f, g \in PullFileIds :
        /\ localFile[f] = "same" /\ outcome[f] = "skipped" /\ ~batchStarted[f]
        /\ download[g] = "batch"


LockStep == requests' = requests + 1 /\ lastReq'.kind = "lock"
LockKeyAccepted == lastReq'.key \in keyPresent \ keyRevoked
LockAnswerReceived == lastReq'.net = "ok"

(* C26: a lock request for a project that already has a lock row returns     *)
(* success:false with lockedBy equal to the current holder and leaves the    *)
(* lock row (holder and lock time) unchanged; the request is served once,    *)
(* neither queued nor retried.  The answer meant is the route's answer to a  *)
(* request whose key it accepts, as received by the caller.                  *)
C26_LockConflictAnswer ==
    [][\A p \in Projects :
          (LockStep /\ lastReq'.project = p /\ locks[p] # NoLock) =>
              /\ UNCHANGED <<locks, lockedAt>>
              /\ lastResult'.success # "true"
              /\ grants'[p] = grants[p]
              /\ (LockKeyAccepted /\ LockAnswerReceived) =>
                    /\ lastResult'.status = 200
                    /\ lastResult'.success = "false"
                    /\ lastResult'.lockedBy = locks[p]
                    /\ lastResult'.lockedAt = lockedAt[p]]_vars

(* An editor has asked for a project another editor holds, and was told who. *)
C26_Witness ==
    /\ lastReq.kind = "lock"
    /\ lastReq.net = "ok"
    /\ lastResult.status = 200
    /\ lastResult.success = "false"
    /\ lastResult.lockedBy = locks[lastReq.project]
    /\ lastResult.lockedBy # editor_name(lastReq.key)
    /\ lastResult.lockedAt = lockedAt[lastReq.project]


ForceUnlockStep == requests' = requests + 1 /\ lastReq'.kind = "force-unlock"
ForceUnlockValid == lastReq'.key = "admin:right"

(* C27: a force-unlock issued with valid admin credentials removes the       *)
(* project's lock whoever holds it, leaving the project unlocked (and the    *)
(* other projects' locks as they were); a force-unlock request without       *)
(* valid admin credentials leaves the lock unchanged.                        *)
C27_ForceUnlock ==
    [][ForceUnlockStep =>
          IF ForceUnlockValid
          THEN /\ locks'[lastReq'.project] = NoLock
               /\ lastResult'.success = "true"
               /\ \A q \in Projects \ {lastReq'.project} :
                     locks'[q] = locks[q] /\ lockedAt'[q] = lockedAt[q]
          ELSE /\ UNCHANGED <<locks, lockedAt>>
               /\ lastResult'.status = 401]_vars

(* The administrator has just removed an editor's lock. *)
C27_Witness ==
    /\ lastReq.kind = "force-unlock"
    /\ lastReq.key = "admin:right"
    /\ rowRemoved
    /\ locks[lastReq.project] = NoLock


LockRowChanges(p) ==
    /\ locks[p] # NoLock
    /\ locks'[p] # locks[p] \/ lockedAt'[p] # lockedAt[p]
HolderUnlocks(p) ==
    /\ lastReq'.kind = "unlock"
    /\ lastReq'.net # "requestLost"
    /\ lastReq'.key \in keyPresent
    /\ editor_name(lastReq'.key) = locks[p]
AdminForceUnlocks == lastReq'.kind = "force-unlock" /\ lastReq'.key = "admin:right"

(* C28: a lock row is removed only by a successful unlock from its holder or *)
(* by an admin force-unlock: no passage of time, key expiry, key revocation  *)
(* or key deletion, and no other endpoint, removes or changes it.            *)
C28_LockRowRemovedOnlyByUnlock ==
    [][\A p \in Projects :
          LockRowChanges(p) =>
              /\ locks'[p] = NoLock
              /\ requests' = requests + 1
              /\ lastReq'.project = p
              /\ HolderUnlocks(p) \/ AdminForceUnlocks]_vars

(* A lock outlives the key it was taken with: the holder's key has been      *)
(* deleted, or revoked and expired, and the row is still there.              *)
C28_Witness ==
    \E p \in Projects, k \in IssuedKeys :
        /\ locks[p] = editor_name(k)
        /\ lockedAt[p] > 0
        /\ k \notin keyPresent \/ (k \in keyRevoked /\ k \in keyExpired)
        /\ \A j \in IssuedKeys \ {k} : editor_name(j) # locks[p] \/ j \notin keyPresent


PushBegins == ~isPushing /\ isPushing'

(* C29: a push of a project is never started while the server's lock table   *)
(* shows that project locked by a different editor: the client's lock        *)
(* belief is reconciled with the server before the push begins.              *)
C29_NoPushWhileLockedByOther ==
    [][PushBegins =>
          /\ locks[currentProject] \in {NoLock, editorName}
          /\ projectLocks[currentProject] = locks[currentProject]]_vars


(* The same file of a Windows volume, whatever the case it is spelt in. *)
SameLocalFile(a, b) ==
    /\ a.drive = b.drive
    /\ Len(PathOf(a)) = Len(PathOf(b))
    /\ \A i \in 1..Len(PathOf(a)) : toLowerCase(PathOf(a)[i]) = toLowerCase(PathOf(b)[i])
Assigned == 1..Len(driveRelativePath)

(* C30: within one push batch, no two distinct local files are assigned the  *)
(* same remote relative path: project-internal files keep their path         *)
(* relative to the project folder, and files from elsewhere get a            *)
(* drive/external prefix so that they collide neither with each other nor    *)
(* with project-internal files.                                              *)
C30_RemotePathsDistinct ==
    \A i, j \in Assigned :
        (i # j /\ ~SameLocalFile(allFilesToUpload[i], allFilesToUpload[j]))
            => driveRelativePath[i] # driveRelativePath[j]

InternalUnderExternalName(file) ==
    /\ file.type # "project"
    /\ InsideProjectRoot(file)
    /\ relative(file)[1] \in {drivePrefix(d) : d \in Drives}

(* C30, the case the code does satisfy: the paths are distinct when no       *)
(* project-internal file lies under a top-level folder of the project that    *)
(* bears the name of an external prefix; project-internal files keep their    *)
(* relative path and the others start with the prefix of their drive.         *)
C30_DistinctUnlessFolderNamedLikePrefix ==
    /\ (\A k \in Assigned : ~InternalUnderExternalName(allFilesToUpload[k]))
          => C30_RemotePathsDistinct
    /\ \A k \in Assigned :
          LET file == allFilesToUpload[k] IN
          file.type # "project" =>
              IF InsideProjectRoot(file)
              THEN driveRelativePath[k] = relative(file)
              ELSE driveRelativePath[k][1] = drivePrefix(file.drive)


(* C31: after a project descriptor is pulled, the patcher rewrites the file  *)
(* on disk only if at least one path substitution was made; with zero        *)
(* substitutions the downloaded file is left exactly as it was written.      *)
C31_RewriteOnlyIfPatched ==
    /\ diskWrites > 1 => (patchPc = "done" /\ patchCount >= 1 /\ diskRefs = xmlString)
    /\ (diskWrites >= 1 /\ patchCount = 0) => (diskWrites = 1 /\ diskRefs = prprojRefs)
    /\ (patchPc = "done" /\ patchCount >= 1) => (diskWrites = 2 /\ diskRefs # prprojRefs)

(* The patcher went through a descriptor whose paths already point into the  *)
(* target folder, found the files, substituted nothing and saved nothing.    *)
C31_Witness ==
    /\ patchPc = "done"
    /\ patchIdx > Len(prprojRefs)
    /\ Len(prprojRefs) = MaxRefs
    /\ \A i \in 1..Len(prprojRefs) : lowerName(prprojRefs[i].base) \in availableFiles
    /\ patchCount = 0
    /\ diskWrites = 1


NoBodyRequest ==
    /\ sent["meta"] = 0
    /\ sent["session"] = 0
    /\ sent["simple"] = 0
    /\ sends = <<>>
    /\ serverBytes = 0

(* C32: when a remote file of the same name with a matching content hash     *)
(* already exists, the upload of that file returns skipped without creating  *)
(* metadata, opening a resumable session or sending any file body; and it    *)
(* returns skipped in no other case.                                         *)
C32_UnchangedFileSkipped ==
    /\ existing = "same" => (rPc = "done" /\ rResult = "skipped" /\ NoBodyRequest)
    /\ rResult = "skipped" => (existing = "same" /\ sent["lookup"] = 1)

(* A file large enough for a resumable upload was found unchanged. *)
C32_Witness ==
    /\ existing = "same"
    /\ rResult = "skipped"
    /\ totalSize >= DRIVE_RESUMABLE_THRESHOLD


BackoffWait ==
    /\ waitMs >= backoffBase(retryAttempt)
    /\ waitMs <= backoffBase(retryAttempt) + 500

(* C33: the wait before retry number n (n = 1..3) equals the server's        *)
(* retry-after delay whenever the failed response supplied one, and          *)
(* otherwise is at least min(30 s, 1 s * 2^(n-1)) and at most that value     *)
(* plus 500 ms.                                                              *)
C33_WaitHonoursRetryAfter ==
    retryPc = "sleep" =>
        IF retryAfter.form # "absent"
        THEN waitMs = retryAfter.seconds * 1000
        ELSE BackoffWait

(* C33, the case the code does satisfy: a Retry-After that is a positive     *)
(* whole number of seconds is waited for exactly; with no header, a header   *)
(* of 0 seconds or a header in date form the wait is the backoff, between    *)
(* min(30 s, 1 s * 2^(n-1)) and 499 ms more.                                 *)
C33_WaitHonoursPositiveSeconds ==
    retryPc = "sleep" =>
        /\ retryAttempt \in 1..(DRIVE_MAX_RETRIES - 1)
        /\ IF retryAfter.form = "seconds" /\ retryAfter.seconds > 0
           THEN waitMs = retryAfter.seconds * 1000
           ELSE BackoffWait /\ waitMs < backoffBase(retryAttempt) + JitterSpan

(* What one upload has sent, by strategy. *)
WentResumable == sent["session"] >= 1
WentSimple == sent["simple"] >= 1
ChunksInOrderAndBounded ==
    \A r \in DOMAIN sends : r[2] >= 1 /\ r[2] <= DRIVE_CHUNK_SIZE /\ r[1] + r[2] <= totalSize

(* C34: an upload of at least 8 MiB (8*1024*1024 bytes, boundary included)   *)
(* goes through a resumable session with chunks of at most 8 MiB each and    *)
(* never through a whole-payload request; a smaller upload is sent as one    *)
(* whole-payload request and never opens a session.                          *)
C34_StrategyBySize ==
    /\ totalSize >= 8 * 1024 * 1024 => ~WentSimple
    /\ totalSize < 8 * 1024 * 1024 => (~WentResumable /\ sends = <<>>)
    /\ ChunksInOrderAndBounded
    /\ (rPc \in {"session", "read", "put"}) => totalSize >= 8 * 1024 * 1024
    /\ (rPc = "simple") => totalSize < 8 * 1024 * 1024

(* What holds of C34: the size decides for a file on disk, and content held  *)
(* in memory is sent whole whatever its size.                                *)
C34_StrategyBySizeForPathInput ==
    /\ (fileIsPathInput /\ totalSize >= 8 * 1024 * 1024) => ~WentSimple
    /\ (~fileIsPathInput \/ totalSize < 8 * 1024 * 1024) => (~WentResumable /\ sends = <<>>)
    /\ ChunksInOrderAndBounded
    /\ WentResumable => ~WentSimple

(* The step is a lock or unlock request carrying key k. *)
LockStateRequest == requests' = requests + 1 /\ lastReq'.kind \in {"lock", "unlock"}
Rejected401 == lastReq'.net = "ok" => lastResult'.status = 401

(* C35: a lock or unlock request carrying an API key that /api/validate      *)
(* reports as invalid (unknown, revoked or expired) is rejected and leaves   *)
(* the lock table unchanged.                                                 *)
C35_InvalidKeyCannotChangeLocks ==
    [][(LockStateRequest /\ ~validate(lastReq'.key))
          => (locks' = locks /\ lockedAt' = lockedAt /\ Rejected401)]_vars

(* What holds of C35: an unknown key is rejected by both routes and a        *)
(* revoked key by the lock route.                                            *)
C35_UnknownKeyCannotChangeLocks ==
    [][(/\ LockStateRequest
        /\ \/ lastReq'.key \notin keyPresent
           \/ lastReq'.kind = "lock" /\ lastReq'.key \in keyRevoked)
          => (locks' = locks /\ lockedAt' = lockedAt /\ Rejected401)]_vars

(* The step issues a request for f: the metadata create of                   *)
(* ensureDriveFileMetadata, or a new upload request (session start, chunk    *)
(* PUT or simple PATCH, first or after a back-off wait).                     *)
RequestIssued(f) ==
    \/ phase[f] # "meta" /\ phase'[f] = "meta"
    \/ xhr[f] # "open" /\ xhr'[f] = "open"

(* C36: after global cancellation of a push has been requested, no further   *)
(* upload request of any kind (metadata create, session start, chunk PUT,    *)
(* simple PATCH, or a retry after a back-off wait) is issued for any file    *)
(* of the batch.                                                             *)
C36_NoRequestAfterGlobalCancel ==
    [][cancelled => \A f \in Files : ~RequestIssued(f)]_vars

(* What holds of C36: after global cancellation no request is issued for a   *)
(* file that was still queued or whose request the cancellation aborted.     *)
C36_NoRequestForQueuedOrAborted ==
    [][cancelled => \A f \in Files :
          (phase[f] = "queued" \/ xhr[f] \in {"aborted", "closed"}) => ~RequestIssued(f)]_vars

TerminalStatuses == {"complete", "skipped", "cancelled", "error"}

(* C37: once a file's status in a push is terminal (complete, skipped,       *)
(* cancelled or error) it never changes again; in particular a file shown    *)
(* as cancelled after an individual cancel never becomes complete and is     *)
(* never counted as uploaded.                                                *)
C37_TerminalStatusFinal ==
    [][\A f \in Files :
          /\ fileStatus[f] \in TerminalStatuses => fileStatus'[f] = fileStatus[f]
          /\ (f \in cancelledFiles /\ phase[f] # "settled" /\ phase'[f] = "settled")
                => uploadedFilesCount' = uploadedFilesCount]_vars

(* What holds of C37: complete and skipped are final, and a file cancelled   *)
(* individually while still queued is counted as cancelled.                  *)
C37_CompleteAndSkippedFinal ==
    [][\A f \in Files :
          /\ fileStatus[f] \in {"complete", "skipped"} => fileStatus'[f] = fileStatus[f]
          /\ (f \in cancelledFiles /\ phase[f] = "queued" /\ phase'[f] = "settled")
                => (cancelledFilesCount' = cancelledFilesCount + 1
                    /\ fileStatus'[f] = "cancelled")]_vars

(* The last thing the upload saw was a chunk answered 200 / 201. *)
TerminalChunkAnswer ==
    lastRequest = "put" /\ lastOutcome = "answer" /\ serverBytes >= totalSize

(* C38: a resumable upload returns a success result only if the committed    *)
(* byte count equals the declared total size or the server answered a chunk  *)
(* with a terminal 2xx; a short or empty local read never yields success.    *)
C38_SuccessOnlyWhenComplete ==
    rResult = "success" => (committedBytes = totalSize \/ TerminalChunkAnswer)

(* What holds of C38: when the local file has kept its declared length, a    *)
(* success result comes with every byte committed.                           *)
C38_SuccessOfUnchangedFileComplete ==
    (rResult = "success" /\ fileLen = totalSize)
        => (committedBytes = totalSize /\ TerminalChunkAnswer)

(* The step hands f to processSingleFile. *)
HandedOver(f) == phase[f] = "queued" /\ phase'[f] # "queued"

(* Files a worker is awaiting processSingleFile of. *)
InProcessing == {f \in Files : phase[f] \notin {"queued", "settled"}}

(* C39: with no global cancellation, every file of a push batch is handed    *)
(* to processing exactly once, by exactly one worker: the files are handed   *)
(* over in the order of the pickup index, one per turn of a worker, a file   *)
(* handed over is never handed over again, each file in processing has its   *)
(* own worker, and when the workers have been joined every file has been     *)
(* processed.                                                                *)
C39_EachFileHandedOnce ==
    [][~cancelled' =>
          /\ \A f \in Files : HandedOver(f) => (nextFileIndex = f - 1 /\ nextFileIndex' = f)
          /\ \A f \in Files : phase[f] # "queued" => phase'[f] # "queued"
          /\ \A f \in Files : phase'[f] # "queued" <=> f <= nextFileIndex'
          /\ nextFileIndex' >= nextFileIndex
          /\ pc' = "workers" =>
                Cardinality(InProcessing') + workersReady' + workersExited'
                    = WorkerCount(totalFiles)
          /\ pc' \in {"manifest", "done"} /\ result' # "error" =>
                (\A f \in Files : phase'[f] = "settled") /\ CountSum' = totalFiles]_vars

(* A batch of more files than workers has ended without cancellation, every  *)
(* file processed and every worker returned.                                 *)
C39_Witness ==
    /\ pc = "done"
    /\ result = "success"
    /\ ~cancelled
    /\ totalFiles = NumFiles
    /\ totalFiles > MAX_PARALLEL_UPLOADS
    /\ \A f \in Files : phase[f] = "settled"
    /\ workersExited = WorkerCount(totalFiles)
    /\ CountSum = totalFiles

(* The request made last acquired the lock on its project with its key. *)
JustAcquired ==
    /\ lastReq.kind = "lock"
    /\ lastResult.success = "true"
    /\ locks[lastReq.project] = editor_name(lastReq.key)

(* The step is an unlock request for that project carrying another key. *)
UnlockWithOtherKey ==
    /\ requests' = requests + 1
    /\ lastReq'.kind = "unlock"
    /\ lastReq'.project = lastReq.project
    /\ lastReq'.key # lastReq.key

(* C40: a lock acquired with one API key can be released only through that   *)
(* same key or by an admin force-unlock: an unlock request carrying a        *)
(* different API key never removes it.                                       *)
C40_OnlyLockingKeyUnlocks ==
    [][(JustAcquired /\ UnlockWithOtherKey)
          => locks'[lastReq.project] = locks[lastReq.project]]_vars

(* What holds of C40: an unlock request carrying a key of another editor     *)
(* name never removes the lock.                                              *)
C40_OtherEditorCannotUnlock ==
    [][(JustAcquired /\ UnlockWithOtherKey /\ editor_name(lastReq'.key) # editor_name(lastReq.key))
          => (locks'[lastReq.project] = locks[lastReq.project]
              /\ lastResult'.success # "true")]_vars


====
